---- MODULE Spec2Model ----
(***************************************************************************)
(* The OAuth relay of the DocuSign Navigator MCP server: GET /authorize,   *)
(* GET /auth/callback and POST /token, with the state codec they share.    *)
(*                                                                         *)
(* A JavaScript string is modelled as the sequence of its UTF-16 code      *)
(* units (naturals), so that btoa, encodeURIComponent, JSON.stringify and  *)
(* the URL class can be modelled by what they do to the characters. An     *)
(* exception is modelled as a result [ok |-> FALSE].                       *)
(***************************************************************************)
EXTENDS Integers, Sequences, FiniteSets, TLC

(***************************************************************************)
(* Characters                                                              *)
(***************************************************************************)

\* A printable ASCII string as a sequence of code units.
Chars(s) ==
    LET
        \* The printable ASCII characters U+0020 .. U+005F and U+0061 .. U+007E, in code
        \* order (a TLA+ string cannot hold U+0060, which no input of the model uses).
        AsciiLow == " !\"#$%&'()*+,-./0123456789:;<=>?@ABCDEFGHIJKLMNOPQRSTUVWXYZ[\\]^_"

        AsciiHigh == "abcdefghijklmnopqrstuvwxyz{|}~"

        \* The code unit of a printable ASCII character given as a one-character string.
        Code(c) ==
            IF \E i \in 1..Len(AsciiLow) : SubSeq(AsciiLow, i, i) = c
            THEN 31 + (CHOOSE i \in 1..Len(AsciiLow) : SubSeq(AsciiLow, i, i) = c)
            ELSE 96 + (CHOOSE i \in 1..Len(AsciiHigh) : SubSeq(AsciiHigh, i, i) = c)
    IN
    [i \in 1..Len(s) |-> Code(SubSeq(s, i, i))]

\* JavaScript's null / undefined where a string is expected.
NULL == <<0 - 1>>

\* !value for a string-or-null value: null, undefined and "" are falsy.
Falsy(v) == v = NULL \/ v = <<>>

\* value || fallback
OrElse(v, d) == IF Falsy(v) THEN d ELSE v

IsDigit(c) == c >= 48 /\ c <= 57
IsUpper(c) == c >= 65 /\ c <= 90
IsLower(c) == c >= 97 /\ c <= 122
IsAlpha(c) == IsUpper(c) \/ IsLower(c)
IsHexDigit(c) == IsDigit(c) \/ (c >= 65 /\ c <= 70) \/ (c >= 97 /\ c <= 102)

HexValue(c) == IF IsDigit(c) THEN c - 48 ELSE IF IsUpper(c) THEN c - 55 ELSE c - 87

\* String.prototype.toLowerCase, on the ASCII letters.
ToLower(s) ==
    LET
        ToLowerChar(c) == IF IsUpper(c) THEN c + 32 ELSE c
    IN
    [i \in 1..Len(s) |-> ToLowerChar(s[i])]

\* The concatenation of a sequence of strings, by halving (a shallow recursion).
RECURSIVE Concat(_)
Concat(ss) ==
    IF Len(ss) = 0 THEN <<>>
    ELSE IF Len(ss) = 1 THEN ss[1]
    ELSE Concat(SubSeq(ss, 1, Len(ss) \div 2)) \o Concat(SubSeq(ss, (Len(ss) \div 2) + 1, Len(ss)))

\* The least and the greatest of a set of positions, none when it is empty.
FirstIn(hits, none) ==
    IF hits = {} THEN none ELSE CHOOSE i \in hits : \A j \in hits : i <= j

LastIn(hits, none) ==
    IF hits = {} THEN none ELSE CHOOSE i \in hits : \A j \in hits : j <= i

\* The positions of s that satisfy Test, in order.
Positions(s, Test(_)) == SelectSeq([i \in 1..Len(s) |-> i], Test)

\* The first position >= from at which one of the characters of stops occurs,
\* Len(s) + 1 when none does.
FindFirst(s, from, stops) == FirstIn({i \in from..Len(s) : s[i] \in stops}, Len(s) + 1)

\* s.startsWith(p)
StartsWith(s, p) == Len(s) >= Len(p) /\ SubSeq(s, 1, Len(p)) = p

\* s.includes(p)
Includes(s, p) == \E i \in 0..(Len(s) - Len(p)) : SubSeq(s, i + 1, i + Len(p)) = p

(***************************************************************************)
(* btoa and atob                                                           *)
(***************************************************************************)

\* "=", the padding of base64
PadChar == 61

Pow(b, e) == IF e = 0 THEN 1 ELSE IF e = 1 THEN b ELSE IF e = 2 THEN b * b ELSE b * b * b

\* btoa(s): throws InvalidCharacterError when a code unit is above U+00FF,
\* otherwise the padded base64 of the code units taken as bytes.
btoa(input) ==
    LET
        Base64Alphabet == Chars("ABCDEFGHIJKLMNOPQRSTUVWXYZabcdefghijklmnopqrstuvwxyz0123456789+/")

        \* Byte i of s, 0 beyond its end.
        ByteAt(s, i) == IF i <= Len(s) THEN s[i] ELSE 0

        \* The 24 bits of the k-th group of three bytes (k from 0).
        ByteGroup(s, k) ==
            ByteAt(s, 3 * k + 1) * 65536 + ByteAt(s, 3 * k + 2) * 256 + ByteAt(s, 3 * k + 3)

        \* Character j of the base64 of s.
        Base64Char(s, k, p) ==
            IF (p = 2 /\ 3 * k + 2 > Len(s)) \/ (p = 3 /\ 3 * k + 3 > Len(s)) THEN PadChar
            ELSE Base64Alphabet[((ByteGroup(s, k) \div Pow(64, 3 - p)) % 64) + 1]
    IN
    IF \E i \in 1..Len(input) : input[i] > 255 THEN [ok |-> FALSE, v |-> <<>>]
    ELSE [ok |-> TRUE,
          v |-> [j \in 1..(4 * ((Len(input) + 2) \div 3)) |->
                    Base64Char(input, (j - 1) \div 4, (j - 1) % 4)]]

\* atob(s), the forgiving base64 decode.
atob(input) ==
    LET
        IsBase64Char(c) == IsAlpha(c) \/ IsDigit(c) \/ c = 43 \/ c = 47

        \* The value 0..63 of a character of the alphabet.
        Base64Index(c) ==
            IF IsUpper(c) THEN c - 65
            ELSE IF IsLower(c) THEN c - 71
            ELSE IF IsDigit(c) THEN c + 4
            ELSE IF c = 43 THEN 62
            ELSE 63

        IsAsciiWhitespace(c) == c \in {9, 10, 12, 13, 32}

        StripAsciiWhitespace(s) == SelectSeq(s, LAMBDA c : ~IsAsciiWhitespace(c))

        \* One or two trailing "=" are removed when the length is a multiple of 4.
        StripPadding(t) ==
            IF Len(t) % 4 = 0 /\ Len(t) > 0 /\ t[Len(t)] = PadChar
            THEN IF t[Len(t) - 1] = PadChar THEN SubSeq(t, 1, Len(t) - 2)
                 ELSE SubSeq(t, 1, Len(t) - 1)
            ELSE t

        Sextet(u, i) == IF i <= Len(u) THEN Base64Index(u[i]) ELSE 0

        \* The 24 bits of the k-th group of four characters (k from 0).
        SextetGroup(u, k) ==
            Sextet(u, 4 * k + 1) * 262144 + Sextet(u, 4 * k + 2) * 4096
            + Sextet(u, 4 * k + 3) * 64 + Sextet(u, 4 * k + 4)

        \* A length of 1 mod 4 or a character outside the alphabet throws; leftover
        \* bits are dropped.
        DecodeBase64(u) ==
            IF Len(u) % 4 = 1 \/ (\E i \in 1..Len(u) : ~IsBase64Char(u[i]))
            THEN [ok |-> FALSE, v |-> <<>>]
            ELSE [ok |-> TRUE,
                  v |-> [j \in 1..((Len(u) * 6) \div 8) |->
                            (SextetGroup(u, (j - 1) \div 3) \div Pow(256, 2 - ((j - 1) % 3))) % 256]]
    IN
    DecodeBase64(StripPadding(StripAsciiWhitespace(input)))

(***************************************************************************)
(* UTF-8, encodeURIComponent and decodeURIComponent                        *)
(***************************************************************************)

PercentEncode(ch) ==
    LET
        \* The upper-case hexadecimal digit of a value 0..15.
        HexDigit(v) == IF v < 10 THEN 48 + v ELSE 55 + v

        \* The UTF-8 bytes of a code unit of the Basic Multilingual Plane.
        Utf8Bytes(c) ==
            IF c < 128 THEN <<c>>
            ELSE IF c < 2048 THEN <<192 + (c \div 64), 128 + (c % 64)>>
            ELSE <<224 + (c \div 4096), 128 + ((c \div 64) % 64), 128 + (c % 64)>>

        PercentByte(b) == <<37, HexDigit(b \div 16), HexDigit(b % 16)>>

        PercentBytes(bytes) == Concat([i \in 1..Len(bytes) |-> PercentByte(bytes[i])])
    IN
    PercentBytes(Utf8Bytes(ch))

encodeURIComponent(s) ==
    LET
        \* The characters encodeURIComponent leaves alone: A-Z a-z 0-9 - _ . ! ~ * ' ( )
        UriUnreserved(c) == IsAlpha(c) \/ IsDigit(c) \/ c \in {45, 95, 46, 33, 126, 42, 39, 40, 41}
    IN
    Concat([i \in 1..Len(s) |-> IF UriUnreserved(s[i]) THEN <<s[i]>> ELSE PercentEncode(s[i])])

\* UTF-8 decoding. ok: no bad byte; v: the decoded string.
Utf8Decode(escaped, bytes) ==
    LET
        \* The number of bytes of the UTF-8 sequence a lead byte opens, 0 for a byte
        \* that cannot open one. (Sequences of four bytes, which decode to surrogate
        \* pairs, are outside the alphabet of the model.)
        Utf8Length(b) ==
            IF b < 128 THEN 1
            ELSE IF b >= 194 /\ b <= 223 THEN 2
            ELSE IF b >= 224 /\ b <= 239 THEN 3
            ELSE 0

        \* A percent-decoded string is given as its units: esc[k] says that unit k is
        \* an escaped byte, val[k] is the byte or the literal character.
        \* Unit k is a continuation byte / opens a complete sequence / continues one.
        IsCont(esc, val, k) == k >= 1 /\ k <= Len(val) /\ esc[k] /\ val[k] >= 128 /\ val[k] <= 191

        IsLead(esc, val, k) ==
            /\ k >= 1 /\ esc[k] /\ Utf8Length(val[k]) >= 2
            /\ \A d \in 1..(Utf8Length(val[k]) - 1) : IsCont(esc, val, k + d)

        Belongs(esc, val, k) ==
            /\ IsCont(esc, val, k)
            /\ \E d \in 1..2 : IsLead(esc, val, k - d) /\ Utf8Length(val[k - d]) > d

        \* Unit k is an escaped byte above 0x7F outside every complete sequence.
        BadByte(esc, val, k) ==
            esc[k] /\ val[k] >= 128 /\ ~IsLead(esc, val, k) /\ ~Belongs(esc, val, k)

        \* The character that starts at unit k; U+FFFD for a bad byte.
        DecodedAt(esc, val, k) ==
            IF ~esc[k] \/ val[k] < 128 THEN val[k]
            ELSE IF ~IsLead(esc, val, k) THEN 65533
            ELSE IF Utf8Length(val[k]) = 2 THEN (val[k] - 192) * 64 + (val[k + 1] - 128)
            ELSE (val[k] - 224) * 4096 + (val[k + 1] - 128) * 64 + (val[k + 2] - 128)

        DecodeHeads(esc, val, heads) == [j \in 1..Len(heads) |-> DecodedAt(esc, val, heads[j])]
    IN
    [ok |-> \A k \in 1..Len(bytes) : ~BadByte(escaped, bytes, k),
     v |-> DecodeHeads(escaped, bytes,
                       SelectSeq([k \in 1..Len(bytes) |-> k], LAMBDA k : ~Belongs(escaped, bytes, k)))]

\* Percent-decoding: every "%XX" with two hexadecimal digits is a byte, every
\* other character is itself. wellFormed: no "%" is left over.
PercentDecode(input) ==
    LET
        \* "%XX" with two hexadecimal digits starts at position i of s.
        IsEscape(s, i) ==
            i >= 1 /\ s[i] = 37 /\ i + 2 <= Len(s) /\ IsHexDigit(s[i + 1]) /\ IsHexDigit(s[i + 2])

        InEscape(s, i) == IsEscape(s, i - 1) \/ IsEscape(s, i - 2)

        PercentUnits(s, starts) ==
            [wellFormed |-> \A i \in 1..Len(s) : s[i] = 37 => IsEscape(s, i),
             esc |-> [k \in 1..Len(starts) |-> IsEscape(s, starts[k])],
             val |-> [k \in 1..Len(starts) |->
                         IF IsEscape(s, starts[k])
                         THEN 16 * HexValue(s[starts[k] + 1]) + HexValue(s[starts[k] + 2])
                         ELSE s[starts[k]]]]
    IN
    PercentUnits(input, Positions(input, LAMBDA i : ~InEscape(input, i)))

\* decodeURIComponent(s): every "%" must open "%XX" with two hexadecimal digits
\* and the escaped bytes must form UTF-8 sequences, else it throws URIError.
decodeURIComponent(s) ==
    LET
        \* The result of decodeURIComponent from the percent-decoded units.
        DecodeUnits(d) ==
            IF d.wellFormed THEN Utf8Decode(d.esc, d.val) ELSE [ok |-> FALSE, v |-> <<>>]
    IN
    DecodeUnits(PercentDecode(s))

(***************************************************************************)
(* JSON.stringify and JSON.parse                                           *)
(***************************************************************************)

\* A parsed JSON value: t is its type, n the value of a number or a boolean,
\* s the characters of a string, m the members of an object ([k, v], in source
\* order) or the elements of an array.
JNull == [t |-> "null", n |-> 0, s |-> <<>>, m |-> <<>>]
JUndefined == [t |-> "undefined", n |-> 0, s |-> <<>>, m |-> <<>>]
JBool(b) == [t |-> "bool", n |-> IF b THEN 1 ELSE 0, s |-> <<>>, m |-> <<>>]
JNum(n) == [t |-> "num", n |-> n, s |-> <<>>, m |-> <<>>]
JStr(s) == [t |-> "str", n |-> 0, s |-> s, m |-> <<>>]
JObj(m) == [t |-> "obj", n |-> 0, s |-> <<>>, m |-> m]
JArr(m) == [t |-> "arr", n |-> 0, s |-> <<>>, m |-> m]

\* The array of the values vals: an element is a member without a name.
JArrOf(vals) == JArr([i \in 1..Len(vals) |-> [k |-> <<>>, v |-> vals[i]]])

\* A string-or-null value of the model as a JavaScript value, and back.
JOfStr(v) == IF v = NULL THEN JUndefined ELSE JStr(v)

RECURSIVE NumberToString(_)
\* String(n) for an integer n.
NumberToString(n) ==
    IF n < 0 THEN <<45>> \o NumberToString(0 - n)
    ELSE IF n < 10 THEN <<48 + n>>
    ELSE NumberToString(n \div 10) \o <<48 + (n % 10)>>

RECURSIVE DigitsValue(_)
DigitsValue(d) ==
    IF Len(d) = 0 THEN 0 ELSE DigitsValue(SubSeq(d, 1, Len(d) - 1)) * 10 + (d[Len(d)] - 48)

RECURSIVE Stringify(_, _, _)
\* JSON.stringify(val, null, indent) at nesting depth level; indent 0 is the
\* compact form of JSON.stringify(val). A member whose value is undefined is
\* left out of an object, and an undefined element of an array is written null.
Stringify(val, indent, level) ==
    LET
        LowerHexDigit(v) == IF v < 10 THEN 48 + v ELSE 87 + v

        \* The JSON escape of one character of a string (QuoteJSONString).
        JsonEscapeChar(c) ==
            IF c = 34 THEN <<92, 34>>
            ELSE IF c = 92 THEN <<92, 92>>
            ELSE IF c = 8 THEN <<92, 98>>
            ELSE IF c = 12 THEN <<92, 102>>
            ELSE IF c = 10 THEN <<92, 110>>
            ELSE IF c = 13 THEN <<92, 114>>
            ELSE IF c = 9 THEN <<92, 116>>
            ELSE IF c < 32 THEN <<92, 117, 48, 48, LowerHexDigit(c \div 16), LowerHexDigit(c % 16)>>
            ELSE <<c>>

        JsonQuote(s) == <<34>> \o Concat([i \in 1..Len(s) |-> JsonEscapeChar(s[i])]) \o <<34>>

        \* The line break and indentation before an item at depth d.
        Break(d) == IF indent = 0 THEN <<>> ELSE <<10>> \o [i \in 1..(indent * d) |-> 32]

        \* One item of an object or array, with the comma that separates it
        \* from the one before.
        Item(p, i, named) ==
            (IF i > 1 THEN <<44>> ELSE <<>>) \o Break(level + 1)
            \o (IF named THEN JsonQuote(p.k) \o <<58>> \o (IF indent = 0 THEN <<>> ELSE <<32>>)
                ELSE <<>>)
            \o Stringify(IF p.v.t = "undefined" THEN JNull ELSE p.v, indent, level + 1)

        Items(open, items, named, close) ==
            IF Len(items) = 0 THEN <<open, close>>
            ELSE <<open>> \o Concat([i \in 1..Len(items) |-> Item(items[i], i, named)])
                 \o Break(level) \o <<close>>
    IN
    IF val.t = "str" THEN JsonQuote(val.s)
    ELSE IF val.t = "num" THEN NumberToString(val.n)
    ELSE IF val.t = "bool" THEN (IF val.n = 1 THEN <<116, 114, 117, 101>>
                                 ELSE <<102, 97, 108, 115, 101>>)
    ELSE IF val.t = "obj"
    THEN Items(123, SelectSeq(val.m, LAMBDA p : p.v.t # "undefined"), TRUE, 125)
    ELSE IF val.t = "arr" THEN Items(91, val.m, FALSE, 93)
    ELSE <<110, 117, 108, 108>>

\* JSON.stringify of an object given as its properties in insertion order, each
\* [k |-> name, v |-> value]: a property whose value is undefined is left out.
JSONstringify(props) == Stringify(JObj(props), 0, 0)

\* The first position >= i that holds no JSON whitespace.
SkipWs(s, i) ==
    LET
        JsonWhitespace == {9, 10, 13, 32}
    IN
    IF i > Len(s) \/ s[i] \notin JsonWhitespace THEN i
    ELSE FirstIn({j \in i..Len(s) : s[j] \notin JsonWhitespace}, Len(s) + 1)

ParseFail == [ok |-> FALSE, val |-> JNull, next |-> 0]

\* A JSON string whose opening quote is at position from.
ParseString(input, from) ==
    LET
        \* The number of backslashes that end right before position j, not reaching
        \* below position lo.
        BackslashRun(s, lo, j) ==
            IF j - 1 < lo \/ s[j - 1] # 92 THEN 0
            ELSE Cardinality({k \in lo..(j - 1) : \A l \in k..(j - 1) : s[l] = 92})

        \* Inside the string opened at position i: position p opens an escape, opens a
        \* "\u" escape, lies inside an escape.
        IsEsc(s, i, p) == s[p] = 92 /\ BackslashRun(s, i + 1, p) % 2 = 0

        IsUEsc(s, i, p) == IsEsc(s, i, p) /\ s[p + 1] = 117

        InsideEsc(s, i, p) ==
            \/ (p > i + 1 /\ IsEsc(s, i, p - 1))
            \/ \E d \in 2..5 : p - d > i /\ IsUEsc(s, i, p - d)

        \* The escape at position p is one of JSON's, within the string closed at close.
        EscOk(s, p, close) ==
            \/ s[p + 1] \in {34, 92, 47, 98, 102, 110, 114, 116}
            \/ /\ s[p + 1] = 117
               /\ p + 5 < close
               /\ \A d \in 2..5 : IsHexDigit(s[p + d])

        \* The character that the escape at position p stands for.
        Unescaped(s, p) ==
            IF s[p + 1] = 98 THEN 8
            ELSE IF s[p + 1] = 102 THEN 12
            ELSE IF s[p + 1] = 110 THEN 10
            ELSE IF s[p + 1] = 114 THEN 13
            ELSE IF s[p + 1] = 116 THEN 9
            ELSE IF s[p + 1] = 117
                 THEN 4096 * HexValue(s[p + 2]) + 256 * HexValue(s[p + 3])
                      + 16 * HexValue(s[p + 4]) + HexValue(s[p + 5])
            ELSE s[p + 1]

        StringUnits(s, i, starts) ==
            [k \in 1..Len(starts) |->
                IF IsEsc(s, i, starts[k]) THEN Unescaped(s, starts[k]) ELSE s[starts[k]]]

        \* The string between the quotes at positions i and close (0: unterminated).
        ParseStringTo(s, i, close) ==
            IF close = 0 THEN ParseFail
            ELSE IF \E p \in (i + 1)..(close - 1) :
                        (s[p] < 32) \/ (IsEsc(s, i, p) /\ ~EscOk(s, p, close))
                 THEN ParseFail
            ELSE [ok |-> TRUE,
                  val |-> JStr(StringUnits(s, i,
                             SelectSeq([k \in 1..(close - i - 1) |-> i + k],
                                       LAMBDA p : ~InsideEsc(s, i, p)))),
                  next |-> close + 1]
    IN
    ParseStringTo(input, from,
        FirstIn({j \in (from + 1)..Len(input) : input[j] = 34 /\ BackslashRun(input, from + 1, j) % 2 = 0}, 0))

AllDigits(d) == \A j \in 1..Len(d) : IsDigit(d[j])

\* A JSON number that starts at position from: -?(0|[1-9][0-9]*)(.[0-9]+)?([eE][+-]?[0-9]+)?
\* Its value is the integer part (no input of the model has a fraction or an
\* exponent).
ParseNumber(input, from) ==
    LET
        NumberChars == {43, 45, 46, 69, 101} \cup (48..57)

        \* (0|[1-9][0-9]*)
        IntegerOk(int) == Len(int) > 0 /\ AllDigits(int) /\ (Len(int) = 1 \/ int[1] # 48)

        \* ([eE][+-]?[0-9]+)?
        ExponentOk(exp) ==
            \/ Len(exp) = 0
            \/ /\ exp[1] \in {69, 101}
               /\ IF Len(exp) > 1 /\ exp[2] \in {43, 45}
                  THEN Len(exp) > 2 /\ AllDigits(SubSeq(exp, 3, Len(exp)))
                  ELSE Len(exp) > 1 /\ AllDigits(SubSeq(exp, 2, Len(exp)))

        \* (.[0-9]+)? then the exponent, the fraction ending before position fracEnd.
        FractionTo(rest, fracEnd) ==
            (fracEnd = 1 \/ fracEnd > 2) /\ ExponentOk(SubSeq(rest, fracEnd, Len(rest)))

        FractionOk(rest) ==
            FractionTo(rest, IF Len(rest) > 0 /\ rest[1] = 46
                             THEN FirstIn({j \in 2..Len(rest) : ~IsDigit(rest[j])}, Len(rest) + 1)
                             ELSE 1)

        NumberParts(int, rest, neg, stop) ==
            IF IntegerOk(int) /\ FractionOk(rest)
            THEN [ok |-> TRUE, val |-> JNum(IF neg THEN 0 - DigitsValue(int) ELSE DigitsValue(int)),
                  next |-> stop]
            ELSE ParseFail

        NumberBody(body, intEnd, neg, stop) ==
            NumberParts(SubSeq(body, 1, intEnd - 1), SubSeq(body, intEnd, Len(body)), neg, stop)

        UnsignedNumber(body, neg, stop) ==
            NumberBody(body, FirstIn({j \in 1..Len(body) : ~IsDigit(body[j])}, Len(body) + 1), neg, stop)

        NumberToken(tok, stop) ==
            IF Len(tok) > 0 /\ tok[1] = 45 THEN UnsignedNumber(SubSeq(tok, 2, Len(tok)), TRUE, stop)
            ELSE UnsignedNumber(tok, FALSE, stop)

        NumberUpTo(s, i, stop) == NumberToken(SubSeq(s, i, stop - 1), stop)
    IN
    NumberUpTo(input, from, FirstIn({j \in from..Len(input) : input[j] \notin NumberChars}, Len(input) + 1))

ParseLiteral(s, i, word, val) ==
    IF i + Len(word) - 1 <= Len(s) /\ SubSeq(s, i, i + Len(word) - 1) = word
    THEN [ok |-> TRUE, val |-> val, next |-> i + Len(word)]
    ELSE ParseFail

RECURSIVE ParseValue(_, _), ParseMembers(_, _, _), ParseElements(_, _, _)

\* The members of an object from position i on, after "{" or ",".
ParseMembers(input, i, sofar) ==
    LET
        \* After a member or an element that ends before position e: "," continues the
        \* list, the closing bracket ends it.
        MemberNext(s, e, got) ==
            IF e > Len(s) THEN ParseFail
            ELSE IF s[e] = 44 THEN ParseMembers(s, e + 1, got)
            ELSE IF s[e] = 125 THEN [ok |-> TRUE, val |-> JObj(got), next |-> e + 1]
            ELSE ParseFail

        MemberEnd(s, key, val, acc) ==
            IF val.ok
            THEN MemberNext(s, SkipWs(s, val.next), Append(acc, [k |-> key.val.s, v |-> val.val]))
            ELSE ParseFail

        MemberValue(s, key, c, acc) ==
            IF c <= Len(s) /\ s[c] = 58 THEN MemberEnd(s, key, ParseValue(s, c + 1), acc)
            ELSE ParseFail

        MemberColon(s, key, acc) ==
            IF key.ok THEN MemberValue(s, key, SkipWs(s, key.next), acc) ELSE ParseFail

        MemberKey(s, j, acc) ==
            IF j <= Len(s) /\ s[j] = 34 THEN MemberColon(s, ParseString(s, j), acc) ELSE ParseFail
    IN
    MemberKey(input, SkipWs(input, i), sofar)

\* The elements of an array from position i on, after "[" or ",".
ParseElements(input, i, sofar) ==
    LET
        ElementNext(s, e, got) ==
            IF e > Len(s) THEN ParseFail
            ELSE IF s[e] = 44 THEN ParseElements(s, e + 1, got)
            ELSE IF s[e] = 93 THEN [ok |-> TRUE, val |-> JArr(got), next |-> e + 1]
            ELSE ParseFail

        ElementEnd(s, val, acc) ==
            IF val.ok THEN ElementNext(s, SkipWs(s, val.next), Append(acc, [k |-> <<>>, v |-> val.val]))
            ELSE ParseFail
    IN
    ElementEnd(input, ParseValue(input, i), sofar)

\* The JSON value that starts at or after position i (whitespace skipped).
ParseValue(input, i) ==
    LET
        \* After "{" / "[", the next token being at position k.
        ParseObject(s, k) ==
            IF k <= Len(s) /\ s[k] = 125 THEN [ok |-> TRUE, val |-> JObj(<<>>), next |-> k + 1]
            ELSE ParseMembers(s, k, <<>>)

        ParseArray(s, k) ==
            IF k <= Len(s) /\ s[k] = 93 THEN [ok |-> TRUE, val |-> JArr(<<>>), next |-> k + 1]
            ELSE ParseElements(s, k, <<>>)

        \* The JSON value whose first character is at position j.
        ParseValueAt(s, j) ==
            IF j > Len(s) THEN ParseFail
            ELSE IF s[j] = 123 THEN ParseObject(s, SkipWs(s, j + 1))
            ELSE IF s[j] = 91 THEN ParseArray(s, SkipWs(s, j + 1))
            ELSE IF s[j] = 34 THEN ParseString(s, j)
            ELSE IF s[j] = 45 \/ IsDigit(s[j]) THEN ParseNumber(s, j)
            ELSE IF s[j] = 116 THEN ParseLiteral(s, j, <<116, 114, 117, 101>>, JBool(TRUE))
            ELSE IF s[j] = 102 THEN ParseLiteral(s, j, <<102, 97, 108, 115, 101>>, JBool(FALSE))
            ELSE IF s[j] = 110 THEN ParseLiteral(s, j, <<110, 117, 108, 108>>, JNull)
            ELSE ParseFail
    IN
    ParseValueAt(input, SkipWs(input, i))

\* JSON.parse(json): [ok |-> FALSE] stands for the SyntaxError it throws.
JSONparse(json) ==
    LET
        \* The whole text must be one value.
        ParsedText(text, r) ==
            IF r.ok /\ SkipWs(text, r.next) > Len(text) THEN [ok |-> TRUE, val |-> r.val]
            ELSE [ok |-> FALSE, val |-> JNull]
    IN
    ParsedText(json, ParseValue(json, 1))

\* value.name for a parsed value: the last member of that name of an object,
\* undefined when there is none or the value is a primitive or an array.
GetProp(obj, name) ==
    LET
        \* The value of the last member among the positions hits.
        LastMember(val, hits) ==
            IF hits = {} THEN JUndefined ELSE val.m[LastIn(hits, 0)].v
    IN
    LastMember(obj, IF obj.t = "obj" THEN {i \in 1..Len(obj.m) : obj.m[i].k = name} ELSE {})

\* !value
JFalsy(val) ==
    \/ val.t \in {"null", "undefined"}
    \/ (val.t = "bool" /\ val.n = 0)
    \/ (val.t = "num" /\ val.n = 0)
    \/ (val.t = "str" /\ val.s = <<>>)

\* Number(value): [nan |-> TRUE] is NaN.
ToNumber(val) ==
    IF val.t \in {"num", "bool"} THEN [nan |-> FALSE, n |-> val.n]
    ELSE IF val.t = "null" THEN [nan |-> FALSE, n |-> 0]
    ELSE IF val.t = "str" /\ \A i \in 1..Len(val.s) : IsDigit(val.s[i])
         THEN [nan |-> FALSE, n |-> DigitsValue(val.s)]
    ELSE IF val.t = "arr" /\ val.m = <<>> THEN [nan |-> FALSE, n |-> 0]
    ELSE [nan |-> TRUE, n |-> 0]

\* String(value), as the URL constructor and URLSearchParams.set apply it.
RECURSIVE ToStringJS(_)
ToStringJS(val) ==
    IF val.t = "str" THEN val.s
    ELSE IF val.t = "num" THEN NumberToString(val.n)
    ELSE IF val.t = "bool" THEN (IF val.n = 1 THEN Chars("true") ELSE Chars("false"))
    ELSE IF val.t = "null" THEN Chars("null")
    ELSE IF val.t = "undefined" THEN Chars("undefined")
    ELSE IF val.t = "obj" THEN Chars("[object Object]")
    ELSE Concat([i \in 1..Len(val.m) |->
                    (IF i > 1 THEN <<44>> ELSE <<>>)
                    \o (IF val.m[i].v.t \in {"null", "undefined"} THEN <<>>
                        ELSE ToStringJS(val.m[i].v))])

(***************************************************************************)
(* The URL class and URLSearchParams                                       *)
(***************************************************************************)

\* The application/x-www-form-urlencoded serializer, of a list of [k, v] pairs.
SerializeQuery(list) ==
    LET
        \* The percent-encode set of application/x-www-form-urlencoded leaves alone the
        \* ASCII alphanumerics and * - . _ ; a space becomes "+".
        FormEncodeChar(c) ==
            IF IsAlpha(c) \/ IsDigit(c) \/ c \in {42, 45, 46, 95} THEN <<c>>
            ELSE IF c = 32 THEN <<43>>
            ELSE PercentEncode(c)

        FormEncode(s) == Concat([i \in 1..Len(s) |-> FormEncodeChar(s[i])])
    IN
    Concat([i \in 1..Len(list) |->
               (IF i > 1 THEN <<38>> ELSE <<>>)
               \o FormEncode(list[i].k) \o <<61>> \o FormEncode(list[i].v)])

PlusToSpace(s) == [i \in 1..Len(s) |-> IF s[i] = 43 THEN 32 ELSE s[i]]

\* The pieces of input between the occurrences of the character sep.
Split(input, sep) ==
    LET
        \* Piece k of s, cut at the positions cuts.
        Piece(s, cuts, k) ==
            SubSeq(s, IF k = 1 THEN 1 ELSE cuts[k - 1] + 1,
                      IF k > Len(cuts) THEN Len(s) ELSE cuts[k] - 1)

        Pieces(s, cuts) == [k \in 1..(Len(cuts) + 1) |-> Piece(s, cuts, k)]
    IN
    Pieces(input, Positions(input, LAMBDA i : input[i] = sep))

\* The application/x-www-form-urlencoded parser: the [k, v] pairs of a query.
ParseQuery(q) ==
    LET
        \* The lenient UTF-8 reading of percent-decoded units.
        LenientUtf8(d) == Utf8Decode(d.esc, d.val).v

        \* The decoding of one name or value: "+" is a space, "%XX" a byte, the bytes
        \* are read as UTF-8 (leniently).
        FormDecode(s) == LenientUtf8(PercentDecode(PlusToSpace(s)))

        \* The name and the value of one piece of a query, "=" being at position e.
        QueryPair(part, e) ==
            [k |-> SubSeq(part, 1, e - 1), v |-> SubSeq(part, e + 1, Len(part))]

        DecodePair(p) == [k |-> FormDecode(p.k), v |-> p.v]

        DecodedPair(p) == [k |-> p.k, v |-> FormDecode(p.v)]

        QueryPairs(parts) ==
            [i \in 1..Len(parts) |->
                DecodedPair(DecodePair(QueryPair(parts[i], FindFirst(parts[i], 1, {61}))))]
    IN
    QueryPairs(SelectSeq(Split(q, 38), LAMBDA part : part # <<>>))

ParamsGet(pairs, name) ==
    LET
        \* URLSearchParams.get(name): the first value of that name, or null.
        FirstValue(list, hits) == IF hits = {} THEN NULL ELSE list[FirstIn(hits, 0)].v
    IN
    FirstValue(pairs, {i \in 1..Len(pairs) : pairs[i].k = name})

\* URLSearchParams.set(name, value): the first pair of that name takes the value
\* and the others of that name are removed; without one, the pair is appended.
ParamsSet(pairs, name, value) ==
    LET
        \* The list with the pair at position first replaced and the other positions of
        \* hits removed.
        ReplaceAt(list, keep, first, pair) ==
            [j \in 1..Len(keep) |-> IF keep[j] = first THEN pair ELSE list[keep[j]]]

        ReplaceFirst(list, hits, first, pair) ==
            ReplaceAt(list, SelectSeq([i \in 1..Len(list) |-> i], LAMBDA i : i \notin hits \/ i = first),
                      first, pair)

        SetAmong(list, hits, pair) ==
            IF hits = {} THEN Append(list, pair) ELSE ReplaceFirst(list, hits, FirstIn(hits, 0), pair)
    IN
    SetAmong(pairs, {i \in 1..Len(pairs) : pairs[i].k = name}, [k |-> name, v |-> value])

\* new URL(input), without a base: [ok |-> FALSE] stands for the TypeError it
\* throws. Tabs and newlines are removed first. (Dot segments and characters
\* that the parser would percent-encode in a path do not occur in the inputs
\* of the model.)
ParseURL(raw) ==
    LET
        SpecialSchemes == {Chars("http"), Chars("https"), Chars("ws"), Chars("wss"), Chars("ftp"),
                           Chars("file")}

        DefaultPort(scheme) ==
            IF scheme = Chars("http") \/ scheme = Chars("ws") THEN Chars("80")
            ELSE IF scheme = Chars("https") \/ scheme = Chars("wss") THEN Chars("443")
            ELSE IF scheme = Chars("ftp") THEN Chars("21")
            ELSE NULL

        \* The forbidden host code points: controls, space, # / : < > ? @ [ \ ] ^ | and %.
        ForbiddenHostChar(c) ==
            c <= 32 \/ c = 127 \/ c \in {35, 37, 47, 58, 60, 62, 63, 64, 91, 92, 93, 94, 124}

        URLFail == [ok |-> FALSE, scheme |-> <<>>, hasHost |-> FALSE, userinfo |-> <<>>,
                    host |-> <<>>, port |-> <<>>, path |-> <<>>, query |-> NULL, fragment |-> NULL]

        \* The host parser. An IPv6 literal keeps its brackets in the serialized host;
        \* a domain is lowercased. (The inputs of the model spell an IPv6 address in its
        \* compressed form and an IPv4 address as four decimal numbers, so that the
        \* parser's renormalisation of other spellings is not modelled.)
        ParseHost(h, special) ==
            IF Len(h) > 0 /\ h[1] = 91
            THEN IF /\ h[Len(h)] = 93 /\ Len(h) > 3
                    /\ \A i \in 2..(Len(h) - 1) : IsHexDigit(h[i]) \/ h[i] = 58
                    /\ \E i \in 2..(Len(h) - 1) : h[i] = 58
                 THEN [ok |-> TRUE, host |-> ToLower(h)]
                 ELSE [ok |-> FALSE, host |-> <<>>]
            ELSE IF \E i \in 1..Len(h) : ForbiddenHostChar(h[i]) THEN [ok |-> FALSE, host |-> <<>>]
            ELSE IF special /\ h = <<>> THEN [ok |-> FALSE, host |-> <<>>]
            ELSE [ok |-> TRUE, host |-> IF special THEN ToLower(h) ELSE h]

        \* The path of a special scheme is never empty and holds no backslash.
        UrlPath(rawPath, special) ==
            IF special
            THEN IF rawPath = <<>> THEN <<47>>
                 ELSE [i \in 1..Len(rawPath) |-> IF rawPath[i] = 92 THEN 47 ELSE rawPath[i]]
            ELSE rawPath

        PortOk(rawPort) == AllDigits(rawPort) /\ Len(rawPort) <= 5 /\ DigitsValue(rawPort) <= 65535

        \* A port that is its scheme's default is dropped.
        NormalPort(scheme, port) == IF port = DefaultPort(scheme) THEN <<>> ELSE port

        UrlPort(scheme, rawPort) ==
            IF rawPort = <<>> THEN <<>> ELSE NormalPort(scheme, NumberToString(DigitsValue(rawPort)))

        \* The URL record of a URL with an authority, from its parsed parts.
        UrlOfParts(scheme, userinfo, host, rawPort, rawPath, query, fragment) ==
            IF ~host.ok \/ ~PortOk(rawPort) THEN URLFail
            ELSE [ok |-> TRUE, scheme |-> scheme, hasHost |-> TRUE, userinfo |-> userinfo,
                  host |-> host.host, port |-> UrlPort(scheme, rawPort),
                  path |-> UrlPath(rawPath, scheme \in SpecialSchemes),
                  query |-> query, fragment |-> fragment]

        \* The port starts after the colon at position portColon of "host:port".
        SplitPort(scheme, userinfo, hostport, portColon, rawPath, query, fragment) ==
            UrlOfParts(scheme, userinfo,
                       ParseHost(SubSeq(hostport, 1, portColon - 1),
                                 scheme \in SpecialSchemes /\ scheme # Chars("file")),
                       SubSeq(hostport, portColon + 1, Len(hostport)), rawPath, query, fragment)

        \* The first colon after the closing bracket of an IPv6 literal, if any.
        PortColon(hostport, afterBracket) ==
            FirstIn({i \in (afterBracket + 1)..Len(hostport) : hostport[i] = 58}, Len(hostport) + 1)

        SplitHostPort(scheme, userinfo, hostport, rawPath, query, fragment) ==
            SplitPort(scheme, userinfo, hostport,
                      PortColon(hostport, LastIn({i \in 1..Len(hostport) : hostport[i] = 93}, 0)),
                      rawPath, query, fragment)

        \* The credentials end at the last "@" of the authority, at position at (0: none).
        SplitUserinfo(scheme, authority, at, rawPath, query, fragment) ==
            SplitHostPort(scheme, SubSeq(authority, 1, at - 1),
                          SubSeq(authority, at + 1, Len(authority)), rawPath, query, fragment)

        SplitAuthority(scheme, authority, rawPath, query, fragment) ==
            SplitUserinfo(scheme, authority,
                          LastIn({i \in 1..Len(authority) : authority[i] = 64}, 0),
                          rawPath, query, fragment)

        \* A slash of the hierarchical part: a special scheme takes "\" for "/".
        IsSlash(c, special) == c = 47 \/ (special /\ c = 92)

        \* The authority runs from position authStart to before position authEnd.
        AuthorityTo(scheme, hier, authStart, authEnd, query, fragment) ==
            SplitAuthority(scheme, SubSeq(hier, authStart, authEnd - 1),
                           SubSeq(hier, authEnd, Len(hier)), query, fragment)

        AuthorityFrom(scheme, hier, authStart, query, fragment) ==
            AuthorityTo(scheme, hier, authStart,
                        FirstIn({i \in authStart..Len(hier) : IsSlash(hier[i], scheme \in SpecialSchemes)},
                                Len(hier) + 1),
                        query, fragment)

        \* A special scheme other than file skips every leading slash and always has an
        \* authority; another scheme has one only after "//". lead is the number of
        \* leading slashes.
        AfterSlashes(scheme, hier, lead, query, fragment) ==
            IF scheme \in SpecialSchemes /\ scheme # Chars("file")
            THEN AuthorityFrom(scheme, hier, lead + 1, query, fragment)
            ELSE IF (scheme \in SpecialSchemes /\ lead >= 2)
                    \/ (scheme \notin SpecialSchemes /\ Len(hier) >= 2 /\ hier[1] = 47 /\ hier[2] = 47)
                 THEN AuthorityFrom(scheme, hier, 3, query, fragment)
            ELSE [ok |-> TRUE, scheme |-> scheme, hasHost |-> FALSE, userinfo |-> <<>>,
                  host |-> <<>>, port |-> <<>>, path |-> UrlPath(hier, scheme \in SpecialSchemes),
                  query |-> query, fragment |-> fragment]

        ParseHier(scheme, hier, query, fragment) ==
            AfterSlashes(scheme, hier,
                         FirstIn({i \in 1..Len(hier) : ~IsSlash(hier[i], scheme \in SpecialSchemes)},
                                 Len(hier) + 1) - 1,
                         query, fragment)

        \* The query starts after "?" at position quest and the fragment after "#" at
        \* position hash (beyond the end: none).
        SplitQuery(input, colon, quest, hash) ==
            ParseHier(ToLower(SubSeq(input, 1, colon - 1)),
                      SubSeq(input, colon + 1, IF quest < hash THEN quest - 1 ELSE hash - 1),
                      IF quest < hash THEN SubSeq(input, quest + 1, hash - 1) ELSE NULL,
                      IF hash <= Len(input) THEN SubSeq(input, hash + 1, Len(input)) ELSE NULL)

        SplitFragment(input, colon, hash) ==
            SplitQuery(input, colon, FindFirst(input, colon + 1, {63}), hash)

        \* The scheme ends at the first colon, at position colon.
        SplitScheme(input, colon) ==
            IF /\ colon <= Len(input) /\ colon > 1 /\ IsAlpha(input[1])
               /\ \A i \in 2..(colon - 1) :
                     IsAlpha(input[i]) \/ IsDigit(input[i]) \/ input[i] \in {43, 45, 46}
            THEN SplitFragment(input, colon, FindFirst(input, colon + 1, {35}))
            ELSE URLFail

        ParseInput(input) == SplitScheme(input, FindFirst(input, 1, {58}))

        \* Leading and trailing C0 controls and spaces are removed.
        TrimC0(s) ==
            IF Len(s) > 0 /\ s[1] > 32 /\ s[Len(s)] > 32 THEN s
            ELSE SubSeq(s, Cardinality({i \in 1..Len(s) : \A j \in 1..i : s[j] <= 32}) + 1,
                        Len(s) - Cardinality({i \in 1..Len(s) : \A j \in i..Len(s) : s[j] <= 32}))
    IN
    ParseInput(TrimC0(SelectSeq(raw, LAMBDA c : c \notin {9, 10, 13})))

\* url.protocol
Protocol(url) == url.scheme \o <<58>>

\* url.hostname
Hostname(url) == url.host

\* url.searchParams, as a list of [k, v] pairs.
SearchParams(url) == IF url.query = NULL THEN <<>> ELSE ParseQuery(url.query)

\* url.toString(), the URL serializer.
Href(url) ==
    Protocol(url)
    \o (IF url.hasHost
        THEN <<47, 47>> \o (IF url.userinfo = <<>> THEN <<>> ELSE url.userinfo \o <<64>>)
             \o url.host \o (IF url.port = <<>> THEN <<>> ELSE <<58>> \o url.port)
        ELSE <<>>)
    \o url.path
    \o (IF url.query = NULL THEN <<>> ELSE <<63>> \o url.query)
    \o (IF url.fragment = NULL THEN <<>> ELSE <<35>> \o url.fragment)

(***************************************************************************)
(* Configuration                                                           *)
(***************************************************************************)

\* oauthConfig.oauth_integration.scopes
RequiredScopes == <<Chars("signature")>>

OptionalScopes == <<Chars("impersonation"), Chars("adm_store_unified_repo_read"),
                    Chars("models_read")>>

DefaultScope == Chars("signature impersonation adm_store_unified_repo_read models_read")

\* oauthConfig.oauth_integration.auth_server.authorization_endpoint
AuthorizationEndpoint == Chars("/oauth/auth")

\* config.docusign: the proxy's own upstream credentials and URLs. The client
\* id, the secret and the redirect URI come from the environment; these are
\* the values of the modelled deployment.
DocusignBaseUrl == Chars("https://account-d.docusign.com")

DocusignClientId == Chars("ikey")

DocusignClientSecret == Chars("skey")

DocusignRedirectUri == Chars("https://mcp.example/auth/callback")

\* config.security.stateExpirationMs, the default of STATE_EXPIRATION_MS
StateExpirationMs == 600000

(***************************************************************************)
(* Responses                                                               *)
(***************************************************************************)

\* A response: its status, its Location header, the members of a JSON error
\* body, or the JSON data of a token response.
NoResponse == [status |-> 0, location |-> NULL, error |-> NULL,
               error_description |-> NULL, state |-> NULL, data |-> JUndefined]

\* In place of a response: an exception was thrown.
Thrown == [NoResponse EXCEPT !.error = Chars("TypeError")]

\* try { r } catch { handler }
Catch(r, handler) == IF r = Thrown THEN handler ELSE r

\* createOAuthErrorResponse(error, description, statusCode, state): a JSON body
\* {error, error_description?, state?}; a falsy description or state is left out.
createOAuthErrorResponse(error, description, statusCode, state) ==
    [status |-> statusCode, location |-> NULL, error |-> error,
     error_description |-> IF Falsy(description) THEN NULL ELSE description,
     state |-> IF Falsy(state) THEN NULL ELSE state, data |-> JUndefined]

RECURSIVE ParamsSetAll(_, _)
ParamsSetAll(list, params) ==
    IF Len(params) = 0 THEN list
    ELSE ParamsSetAll(ParamsSet(list, params[1].k, params[1].v), Tail(params))

\* url.searchParams.set(key, value) for every parameter in order: the list of
\* the URL's query is updated by each set and the query is its serialization
\* (one serialization at the end gives what re-serializing after every set gives).
SetAll(url, params) ==
    IF Len(params) = 0 THEN url
    ELSE [url EXCEPT !.query = SerializeQuery(ParamsSetAll(SearchParams(url), params))]

\* A 302 whose Location is the URL with every parameter set, in the order of
\* params; new URL(...) has thrown when url is no URL.
RedirectTo(url, params) ==
    IF ~url.ok THEN Thrown
    ELSE [status |-> 302, location |-> Href(SetAll(url, params)),
          error |-> NULL, error_description |-> NULL, state |-> NULL, data |-> JUndefined]

\* createOAuthRedirectResponse(redirectUri, params)
createOAuthRedirectResponse(redirectUri, params) == RedirectTo(ParseURL(redirectUri), params)

\* The parameters of an object literal that are set: those whose value is not
\* left out (NULL).
Present(params) == SelectSeq(params, LAMBDA p : p.v # NULL)

\* value, left out when falsy
Truthy(v) == IF Falsy(v) THEN NULL ELSE v

(***************************************************************************)
(* GET /authorize                                                          *)
(***************************************************************************)

AllowedSchemes == {Chars("https"), Chars("http"), Chars("vscode"), Chars("ms-vscode"),
                   Chars("chrome-extension"), Chars("moz-extension")}

DangerousSchemes == {Chars("javascript"), Chars("data"), Chars("vbscript"), Chars("file")}

LocalHostnames == {Chars("localhost"), Chars("127.0.0.1"), Chars("::1")}

SupportedScopes == {RequiredScopes[i] : i \in 1..Len(RequiredScopes)}
                   \cup {OptionalScopes[i] : i \in 1..Len(OptionalScopes)}

\* An AuthorizationError; NoError is the null that a validator returns.
AuthError(error, description) ==
    [error |-> error, error_description |-> description, error_uri |-> NULL, state |-> NULL]

NoError == AuthError(NULL, NULL)

\* The first error of two checks in order.
OrError(err, next) == IF err # NoError THEN err ELSE next

\* url.protocol.replace(':', '')
SchemeOf(url) ==
    LET
        \* protocol.replace(':', ''), the first colon being at position c
        ReplaceColon(p, c) == SubSeq(p, 1, c - 1) \o SubSeq(p, c + 1, Len(p))
    IN
    ReplaceColon(Protocol(url), FindFirst(Protocol(url), 1, {58}))

\* validateRedirectUri(redirectUri)
validateRedirectUri(redirectUri) ==
    LET
        RedirectUriNotAllowed ==
            AuthError(Chars("invalid_request"), Chars("redirect_uri is not allowed"))

        \* The checks of validateRedirectUri on the parsed URL and its scheme.
        SchemeError(url, scheme) ==
            IF scheme \in DangerousSchemes THEN RedirectUriNotAllowed
            ELSE IF scheme = Chars("http") /\ Hostname(url) \notin LocalHostnames
                 THEN RedirectUriNotAllowed
            ELSE IF scheme \notin AllowedSchemes THEN RedirectUriNotAllowed
            ELSE NoError

        RedirectUrlError(url) ==
            IF ~url.ok THEN RedirectUriNotAllowed ELSE SchemeError(url, SchemeOf(url))
    IN
    RedirectUrlError(ParseURL(redirectUri))

\* validateScope(scope)
validateScope(scope) ==
    LET
        \* list.join(sep)
        Join(list, sep) ==
            Concat([i \in 1..Len(list) |-> (IF i > 1 THEN sep ELSE <<>>) \o list[i]])

        InvalidScopeError(invalidScopes) ==
            IF Len(invalidScopes) > 0
            THEN AuthError(Chars("invalid_scope"),
                           Chars("Unsupported scope(s): ") \o Join(invalidScopes, Chars(", ")))
            ELSE NoError
    IN
    InvalidScopeError(SelectSeq(Split(PlusToSpace(scope), 32),
                                LAMBDA t : t # <<>> /\ t \notin SupportedScopes))

\* validateResource(resource)
validateResource(resource) ==
    IF ParseURL(resource).ok THEN NoError
    ELSE AuthError(Chars("invalid_request"), Chars("resource parameter must be a valid URI"))

\* VALIDATION_RULES, in the order of the object's keys: the parameter, whether
\* it carries allowedValues and which, the error and its description.
VALIDATION_RULES ==
    << [param |-> "response_type", allowedValues |-> {Chars("code")},
        error |-> Chars("unsupported_response_type"),
        description |-> Chars("Only authorization code flow is supported")],
       [param |-> "client_id", allowedValues |-> {},
        error |-> Chars("invalid_request"),
        description |-> Chars("client_id parameter is required")],
       [param |-> "redirect_uri", allowedValues |-> {},
        error |-> Chars("invalid_request"),
        description |-> Chars("redirect_uri parameter is required")],
       [param |-> "code_challenge", allowedValues |-> {},
        error |-> Chars("invalid_request"),
        description |-> Chars("code_challenge parameter is required")],
       [param |-> "code_challenge_method", allowedValues |-> {Chars("S256")},
        error |-> Chars("invalid_request"),
        description |-> Chars("code_challenge_method must be S256")] >>

\* validateAuthorizationRequest(authRequest): the rules in order, then the
\* redirect URI, then the scope and the resource when they are given.
validateAuthorizationRequest(authRequest) ==
    LET
        \* One turn of the loop over VALIDATION_RULES: every rule is required.
        RuleFails(rule, value) ==
            Falsy(value) \/ (rule.allowedValues # {} /\ value \notin rule.allowedValues)

        \* The error of the first rule among the failing ones.
        RuleError(failing) ==
            IF failing = {} THEN NoError
            ELSE AuthError(VALIDATION_RULES[FirstIn(failing, 0)].error,
                           VALIDATION_RULES[FirstIn(failing, 0)].description)
    IN
    OrError(RuleError({i \in 1..Len(VALIDATION_RULES) :
                          RuleFails(VALIDATION_RULES[i], authRequest[VALIDATION_RULES[i].param])}),
    OrError(validateRedirectUri(authRequest.redirect_uri),
    OrError(IF ~Falsy(authRequest.scope) THEN validateScope(authRequest.scope) ELSE NoError,
            IF ~Falsy(authRequest.resource) THEN validateResource(authRequest.resource)
            ELSE NoError)))

\* Error parameters that name a state of the handler's own making.
ErrorParamsWithState(error) ==
    Present(<< [k |-> Chars("error"), v |-> error.error],
               [k |-> Chars("error_description"), v |-> Truthy(error.error_description)],
               [k |-> Chars("error_uri"), v |-> Truthy(error.error_uri)],
               [k |-> Chars("state"), v |-> Chars("none")] >>)

\* The parameters of the redirect that reports an AuthorizationError.
ErrorParams(error) ==
    Present(<< [k |-> Chars("error"), v |-> error.error],
               [k |-> Chars("error_description"), v |-> Truthy(error.error_description)],
               [k |-> Chars("error_uri"), v |-> Truthy(error.error_uri)],
               [k |-> Chars("state"), v |-> Truthy(error.state)] >>)

\* handleAuthorizationError(error, redirectUri)
handleAuthorizationError(error, redirectUri) ==
    IF /\ ~Falsy(redirectUri)
       /\ validateRedirectUri(redirectUri) = NoError
       /\ error.error \notin {Chars("invalid_request"), Chars("unauthorized_client")}
    THEN createOAuthRedirectResponse(redirectUri, ErrorParams(error))
    ELSE createOAuthErrorResponse(error.error, error.error_description, 400, error.state)

\* The MCPClientInfo that GET /authorize builds, as the properties of the object
\* literal in order.
MCPClientInfo(authRequest, timestamp) ==
    << [k |-> Chars("client_id"), v |-> JOfStr(authRequest.client_id)],
       [k |-> Chars("redirect_uri"), v |-> JOfStr(authRequest.redirect_uri)],
       [k |-> Chars("original_state"), v |-> JOfStr(authRequest.state)],
       [k |-> Chars("code_challenge"), v |-> JOfStr(authRequest.code_challenge)],
       [k |-> Chars("code_challenge_method"), v |-> JOfStr(authRequest.code_challenge_method)],
       [k |-> Chars("resource"), v |-> JOfStr(authRequest.resource)],
       [k |-> Chars("timestamp"), v |-> JNum(timestamp)] >>

\* encodeStateParameter(mcpClientInfo): encodeURIComponent(btoa(JSON.stringify(info)));
\* [ok |-> FALSE] stands for the exception of btoa.
encodeStateParameter(mcpClientInfo) ==
    LET
        \* encodeURIComponent of the base64, when btoa has not thrown.
        EncodeBase64(b) ==
            IF b.ok THEN [ok |-> TRUE, v |-> encodeURIComponent(b.v)] ELSE [ok |-> FALSE, v |-> <<>>]
    IN
    EncodeBase64(btoa(JSONstringify(mcpClientInfo)))

\* buildDocuSignAuthUrl(authRequest, encodedState)
buildDocuSignAuthUrl(authRequest, encodedState) ==
    Href(SetAll(ParseURL(DocusignBaseUrl \o AuthorizationEndpoint),
                << [k |-> Chars("response_type"), v |-> Chars("code")],
                   [k |-> Chars("client_id"), v |-> DocusignClientId],
                   [k |-> Chars("redirect_uri"), v |-> DocusignRedirectUri],
                   [k |-> Chars("state"), v |-> encodedState],
                   [k |-> Chars("scope"),
                    v |-> PlusToSpace(OrElse(authRequest.scope, DefaultScope))],
                   [k |-> Chars("code_challenge"), v |-> authRequest.code_challenge],
                   [k |-> Chars("code_challenge_method"),
                    v |-> authRequest.code_challenge_method] >>))

\* The AuthorizationRequest that GET /authorize extracts from the query: a
\* missing or empty required parameter is '', a missing or empty optional one is
\* undefined.
ExtractAuthRequest(params) ==
    [response_type |-> OrElse(params.response_type, <<>>),
     client_id |-> OrElse(params.client_id, <<>>),
     redirect_uri |-> OrElse(params.redirect_uri, <<>>),
     scope |-> OrElse(params.scope, NULL),
     state |-> OrElse(params.state, NULL),
     code_challenge |-> OrElse(params.code_challenge, <<>>),
     code_challenge_method |-> OrElse(params.code_challenge_method, <<>>),
     resource |-> OrElse(params.resource, NULL)]

AuthorizeServerError ==
    createOAuthErrorResponse(Chars("server_error"),
                             Chars("Internal server error processing authorization request"),
                             500, NULL)

\* The redirect to the upstream, when encodeStateParameter has not thrown.
AuthorizeEncoded(authRequest, encodedState) ==
    IF ~encodedState.ok THEN Thrown
    ELSE createOAuthRedirectResponse(buildDocuSignAuthUrl(authRequest, encodedState.v), <<>>)

AuthorizeValidated(authRequest, validationError, dateNow) ==
    IF validationError # NoError
    THEN handleAuthorizationError(validationError, authRequest.redirect_uri)
    ELSE AuthorizeEncoded(authRequest, encodeStateParameter(MCPClientInfo(authRequest, dateNow)))

AuthorizeRequest(authRequest, dateNow) ==
    AuthorizeValidated(authRequest, validateAuthorizationRequest(authRequest), dateNow)

\* GET /authorize, for the query parameters params at the time dateNow.
AuthorizeGET(params, dateNow) ==
    Catch(AuthorizeRequest(ExtractAuthRequest(params), dateNow), AuthorizeServerError)

(***************************************************************************)
(* GET /auth/callback                                                      *)
(***************************************************************************)

ParseState(state) ==
    LET
        \* JSON.parse(atob(decodeURIComponent(state))): [ok |-> FALSE] when one of the
        \* three throws.
        ParseBase64(b) == IF b.ok THEN JSONparse(b.v) ELSE [ok |-> FALSE, val |-> JNull]

        ParseDecoded(u) == IF u.ok THEN ParseBase64(atob(u.v)) ELSE [ok |-> FALSE, val |-> JNull]
    IN
    ParseDecoded(decodeURIComponent(state))

\* decodeStateParameter(state)
decodeStateParameter(state) ==
    LET
        \* The value, or null when the try has thrown.
        ValueOrNull(r) == IF r.ok THEN r.val ELSE JNull
    IN
    ValueOrNull(ParseState(state))

\* validateStateTimestamp(mcpClientInfo)
validateStateTimestamp(mcpClientInfo, clock) ==
    LET
        \* dateNow - t <= window; a t that is NaN makes the test false.
        Within(t, dateNow, window) == ~t.nan /\ dateNow - t.n <= window
    IN
    Within(ToNumber(GetProp(mcpClientInfo, Chars("timestamp"))), clock, StateExpirationMs)

TruthyProp(mcpClientInfo, name) ==
    LET
        \* A value of the decoded state as a parameter value: left out when falsy.
        TruthyValue(val) == IF JFalsy(val) THEN NULL ELSE ToStringJS(val)
    IN
    TruthyValue(GetProp(mcpClientInfo, name))

\* The redirect of handleDocuSignError, when the state has decoded.
ErrorRedirect(error, errorDescription, mcpClientInfo) ==
    IF JFalsy(mcpClientInfo)
    THEN createOAuthErrorResponse(error, OrElse(errorDescription, Chars("Authorization failed")),
                                  400, NULL)
    ELSE createOAuthRedirectResponse(
             ToStringJS(GetProp(mcpClientInfo, Chars("redirect_uri"))),
             Present(<< [k |-> Chars("error"), v |-> error],
                        [k |-> Chars("error_description"), v |-> Truthy(errorDescription)],
                        [k |-> Chars("state"),
                         v |-> TruthyProp(mcpClientInfo, Chars("original_state"))] >>))

\* handleDocuSignError(error, errorDescription, state)
handleDocuSignError(error, errorDescription, state) ==
    IF Falsy(state)
    THEN createOAuthErrorResponse(error, OrElse(errorDescription, Chars("Authorization failed")),
                                  400, NULL)
    ELSE ErrorRedirect(error, errorDescription, decodeStateParameter(state))

\* buildSuccessRedirect without the state: the redirect carries the code alone.
buildSuccessRedirectWithoutState(code, mcpClientInfo) ==
    createOAuthRedirectResponse(
        ToStringJS(GetProp(mcpClientInfo, Chars("redirect_uri"))),
        << [k |-> Chars("code"), v |-> code] >>)

\* buildSuccessRedirect(code, mcpClientInfo)
buildSuccessRedirect(code, mcpClientInfo) ==
    createOAuthRedirectResponse(
        ToStringJS(GetProp(mcpClientInfo, Chars("redirect_uri"))),
        Present(<< [k |-> Chars("code"), v |-> code],
                   [k |-> Chars("state"),
                    v |-> TruthyProp(mcpClientInfo, Chars("original_state"))] >>))

\* The success path of GET /auth/callback from the decoded state on.
CallbackDecoded(code, mcpClientInfo, dateNow) ==
    IF JFalsy(mcpClientInfo)
    THEN createOAuthErrorResponse(Chars("invalid_request"),
                                  Chars("Invalid state parameter"), 400, NULL)
    ELSE IF ~validateStateTimestamp(mcpClientInfo, dateNow)
    THEN createOAuthErrorResponse(Chars("invalid_request"),
                                  Chars("State parameter has expired"), 400, NULL)
    ELSE buildSuccessRedirect(code, mcpClientInfo)

CallbackTry(params, dateNow) ==
    IF ~Falsy(params.error)
    THEN handleDocuSignError(params.error, params.error_description, params.state)
    ELSE IF Falsy(params.code) \/ Falsy(params.state)
    THEN createOAuthErrorResponse(Chars("invalid_request"),
                                  Chars("Missing required parameters (code or state)"),
                                  400, NULL)
    ELSE CallbackDecoded(params.code, decodeStateParameter(params.state), dateNow)

\* GET /auth/callback, for the query parameters params (code, state, error,
\* error_description: a string, or NULL when absent) at the time dateNow. An
\* exception (new URL(...) on a redirect_uri that is no URL) is answered
\* with a 500.
CallbackGET(params, dateNow) ==
    LET
        CallbackServerError ==
            createOAuthErrorResponse(Chars("server_error"),
                                     Chars("Internal server error processing callback"), 500, NULL)
    IN
    Catch(CallbackTry(params, dateNow), CallbackServerError)

(***************************************************************************)
(* The superseded variant of GET /authorize (src/unnamed/part_002)         *)
(***************************************************************************)

\* isValidRedirectUri(redirectUri)
isValidRedirectUri(redirectUri) ==
    LET
        \* The checks of isValidRedirectUri on the parsed URL and its scheme.
        SchemeAllowed(url, scheme) ==
            IF scheme \in DangerousSchemes THEN FALSE
            ELSE IF scheme = Chars("http") /\ Hostname(url) \notin LocalHostnames THEN FALSE
            ELSE scheme \in AllowedSchemes

        RedirectUrlAllowed(url) == IF ~url.ok THEN FALSE ELSE SchemeAllowed(url, SchemeOf(url))
    IN
    RedirectUrlAllowed(ParseURL(redirectUri))

\* validateAuthorizationRequest(authRequest) of the superseded variant: the
\* redirect URI is validated before the PKCE parameters.
validateAuthorizationRequestLegacy(authRequest) ==
    IF authRequest.response_type # Chars("code")
    THEN AuthError(Chars("unsupported_response_type"),
                   Chars("Only authorization code flow is supported"))
    ELSE IF Falsy(authRequest.client_id)
    THEN AuthError(Chars("invalid_request"), Chars("client_id parameter is required"))
    ELSE IF Falsy(authRequest.redirect_uri)
    THEN AuthError(Chars("invalid_request"), Chars("redirect_uri parameter is required"))
    ELSE IF ~isValidRedirectUri(authRequest.redirect_uri)
    THEN AuthError(Chars("invalid_request"), Chars("redirect_uri is not allowed"))
    ELSE IF Falsy(authRequest.code_challenge)
    THEN AuthError(Chars("invalid_request"), Chars("code_challenge parameter is required"))
    ELSE IF authRequest.code_challenge_method # Chars("S256")
    THEN AuthError(Chars("invalid_request"), Chars("code_challenge_method must be S256"))
    ELSE OrError(IF ~Falsy(authRequest.scope) THEN validateScope(authRequest.scope)
                 ELSE NoError,
                 IF ~Falsy(authRequest.resource) /\ ~ParseURL(authRequest.resource).ok
                 THEN AuthError(Chars("invalid_request"),
                                Chars("resource parameter must be a valid URI"))
                 ELSE NoError)

\* handleAuthorizationError(error, redirectUri) of the superseded variant; the
\* JSON body is JSON.stringify(error).
handleAuthorizationErrorLegacy(error, redirectUri) ==
    IF /\ ~Falsy(redirectUri)
       /\ isValidRedirectUri(redirectUri)
       /\ error.error \notin {Chars("invalid_request"), Chars("unauthorized_client")}
    THEN RedirectTo(ParseURL(redirectUri), ErrorParams(error))
    ELSE [status |-> 400, location |-> NULL, error |-> error.error,
          error_description |-> error.error_description, state |-> error.state,
          data |-> JUndefined]

\* The redirect to the upstream: the state is encoded and the upstream URL is
\* built inline, by the same calls in the same order as encodeStateParameter
\* and buildDocuSignAuthUrl make.
AuthorizeEncodedLegacy(authRequest, encodedState) ==
    IF ~encodedState.ok \/ Falsy(DocusignClientId) THEN Thrown
    ELSE [status |-> 302, location |-> buildDocuSignAuthUrl(authRequest, encodedState.v),
          error |-> NULL, error_description |-> NULL, state |-> NULL, data |-> JUndefined]

AuthorizeValidatedLegacy(authRequest, validationError, dateNow) ==
    IF validationError # NoError
    THEN handleAuthorizationErrorLegacy(validationError, authRequest.redirect_uri)
    ELSE AuthorizeEncodedLegacy(authRequest,
                                encodeStateParameter(MCPClientInfo(authRequest, dateNow)))

AuthorizeRequestLegacy(authRequest, dateNow) ==
    AuthorizeValidatedLegacy(authRequest, validateAuthorizationRequestLegacy(authRequest),
                             dateNow)

\* GET /authorize of the superseded variant.
AuthorizeGETLegacy(params, dateNow) ==
    Catch(AuthorizeRequestLegacy(ExtractAuthRequest(params), dateNow), AuthorizeServerError)

(***************************************************************************)
(* The superseded variant of GET /auth/callback (callback.ts, 157-308)     *)
(***************************************************************************)

\* JSON.stringify({error, error_description}) with a status
JsonError(status, error, description) ==
    [status |-> status, location |-> NULL, error |-> error,
     error_description |-> description, state |-> NULL, data |-> JUndefined]

\* The try of the error path: reading a property of null throws, as a state
\* that does not decode and a redirect_uri that is no URL do.
ErrorRedirectLegacy(params, decoded) ==
    IF ~decoded.ok \/ decoded.val.t = "null" THEN Thrown
    ELSE RedirectTo(ParseURL(ToStringJS(GetProp(decoded.val, Chars("redirect_uri")))),
                    Present(<< [k |-> Chars("error"), v |-> params.error],
                               [k |-> Chars("error_description"),
                                v |-> Truthy(params.error_description)],
                               [k |-> Chars("state"),
                                v |-> TruthyProp(decoded.val, Chars("original_state"))] >>))

\* The error path: the redirect, or the fallback when there is no state or the
\* try has thrown.
CallbackErrorLegacy(params) ==
    Catch(IF Falsy(params.state) THEN Thrown
          ELSE ErrorRedirectLegacy(params, ParseState(params.state)),
          JsonError(400, params.error,
                    OrElse(params.error_description, Chars("Authorization failed"))))

\* The success path from the decoded state on.
CallbackDecodedLegacy(params, decoded, clock) ==
    LET
        \* const maxAge = 10 * 60 * 1000
        maxAge == 10 * 60 * 1000

        \* Date.now() - timestamp > maxAge; a timestamp that is NaN makes the test false.
        Older(t, dateNow, age) == ~t.nan /\ dateNow - t.n > age
    IN
    IF ~decoded.ok
    THEN JsonError(400, Chars("invalid_request"), Chars("Invalid state parameter"))
    ELSE IF decoded.val.t = "null" THEN Thrown
    ELSE IF Older(ToNumber(GetProp(decoded.val, Chars("timestamp"))), clock, maxAge)
    THEN JsonError(400, Chars("invalid_request"), Chars("State parameter has expired"))
    ELSE RedirectTo(ParseURL(ToStringJS(GetProp(decoded.val, Chars("redirect_uri")))),
                    Present(<< [k |-> Chars("code"), v |-> params.code],
                               [k |-> Chars("state"),
                                v |-> TruthyProp(decoded.val, Chars("original_state"))] >>))

CallbackTryLegacy(params, dateNow) ==
    IF ~Falsy(params.error) THEN CallbackErrorLegacy(params)
    ELSE IF Falsy(params.code) \/ Falsy(params.state)
    THEN JsonError(400, Chars("invalid_request"),
                   Chars("Missing required parameters (code or state)"))
    ELSE CallbackDecodedLegacy(params, ParseState(params.state), dateNow)

\* GET /auth/callback of the superseded variant; the outer catch answers 500.
CallbackGETLegacy(params, dateNow) ==
    Catch(CallbackTryLegacy(params, dateNow),
          JsonError(500, Chars("server_error"),
                    Chars("Internal server error processing callback")))

(***************************************************************************)
(* POST /token (src/unnamed/part_004)                                      *)
(***************************************************************************)

\* The grant types with the password grant among them.
GrantTypesWithPassword ==
    {Chars("authorization_code"), Chars("refresh_token"), Chars("password")}

\* ['authorization_code', 'refresh_token']
GrantTypes == {Chars("authorization_code"), Chars("refresh_token")}

\* No request to the upstream token endpoint.
NoUpstreamRequest == [url |-> NULL, authorization |-> NULL, body |-> NULL]

\* A reply of the upstream token endpoint: "rejected" is a fetch that fails,
\* "notjson" a response whose body response.json() cannot parse, "json" a
\* response with the parsed body data.
NoReply == [kind |-> "none", status |-> 0, data |-> JUndefined]

\* createTokenErrorResponse(error, description, status, request)
createTokenErrorResponse(error, description, status) ==
    createOAuthErrorResponse(error, description, status, NULL)

\* The code grant with the redirect_uri the caller sent, when it sent one.
CodeGrantParamsOfCaller(params) ==
    ParamsSetAll(<<>>,
        << [k |-> Chars("grant_type"), v |-> Chars("authorization_code")],
           [k |-> Chars("code"), v |-> OrElse(ParamsGet(params, Chars("code")), <<>>)],
           [k |-> Chars("redirect_uri"),
            v |-> OrElse(ParamsGet(params, Chars("redirect_uri")), DocusignRedirectUri)],
           [k |-> Chars("code_verifier"),
            v |-> OrElse(ParamsGet(params, Chars("code_verifier")), <<>>)] >>)

\* The parameters sent upstream for each grant type.
CodeGrantParams(params) ==
    ParamsSetAll(<<>>,
        << [k |-> Chars("grant_type"), v |-> Chars("authorization_code")],
           [k |-> Chars("code"), v |-> OrElse(ParamsGet(params, Chars("code")), <<>>)],
           [k |-> Chars("redirect_uri"), v |-> DocusignRedirectUri],
           [k |-> Chars("code_verifier"),
            v |-> OrElse(ParamsGet(params, Chars("code_verifier")), <<>>)] >>)

RefreshGrantParams(params) ==
    ParamsSetAll(<<>>,
        << [k |-> Chars("grant_type"), v |-> Chars("refresh_token")],
           [k |-> Chars("refresh_token"),
            v |-> OrElse(ParamsGet(params, Chars("refresh_token")), <<>>)] >>)

\* buildTokenRequestParams(grantType, params): the list of the URLSearchParams
buildTokenRequestParams(grantType, params) ==
    IF grantType = Chars("authorization_code") THEN CodeGrantParams(params)
    ELSE IF grantType = Chars("refresh_token") THEN RefreshGrantParams(params)
    ELSE <<>>

\* requestDocuSignToken(docusignParams): the request that fetch sends
requestDocuSignToken(docusignParams) ==
    [url |-> DocusignBaseUrl \o Chars("/oauth/token"),
     authorization |-> Chars("Basic ")
                       \o btoa(DocusignClientId \o <<58>> \o DocusignClientSecret).v,
     body |-> SerializeQuery(docusignParams)]

\* The scope shim left out: the payload goes back as the upstream sent it.
KeepScope(data) == data

\* A shim that returns, of a payload with an access token, the token and the
\* default scope only.
KeepOnlyToken(data) ==
    IF ~JFalsy(GetProp(data, Chars("access_token")))
    THEN JObj(<< [k |-> Chars("access_token"), v |-> GetProp(data, Chars("access_token"))],
                 [k |-> Chars("scope"), v |-> JStr(DefaultScope)] >>)
    ELSE data

\* The scope shim of both variants: a truthy data.access_token makes
\* data.scope the default scope.
OverwriteScope(data) ==
    LET
        \* data[name] = value on a parsed object
        SetProp(val, name, value) ==
            IF \E i \in 1..Len(val.m) : val.m[i].k = name
            THEN JObj([i \in 1..Len(val.m) |->
                          IF val.m[i].k = name THEN [k |-> name, v |-> value] ELSE val.m[i]])
            ELSE JObj(Append(val.m, [k |-> name, v |-> value]))
    IN
    IF ~JFalsy(GetProp(data, Chars("access_token")))
    THEN SetProp(data, Chars("scope"), JStr(DefaultScope))
    ELSE data

\* createTokenResponse(tokenData): status 200, the body is the data
createTokenResponse(tokenData) ==
    [status |-> 200, location |-> NULL, error |-> NULL, error_description |-> NULL,
     state |-> NULL, data |-> tokenData]

\* processTokenResponse(data, request)
processTokenResponse(data) == createTokenResponse(OverwriteScope(data))

TokenServerError ==
    createTokenErrorResponse(Chars("server_error"),
                             Chars("Internal server error processing token request"), 500)

UnsupportedGrantType ==
    createTokenErrorResponse(
        Chars("unsupported_grant_type"),
        Chars("Only authorization_code and refresh_token grant types are supported"), 400)

\* POST /token for the form body and the reply the upstream would give:
\* the response, and the request sent upstream (NoUpstreamRequest when none).
TokenPOST(body, answer) ==
    LET
        \* await response.json(), then processTokenResponse: a failed fetch, a body
        \* that is no JSON and a body that is JSON null (whose access_token cannot be
        \* read) throw.
        TokenReplied(reply) ==
            IF reply.kind # "json" \/ reply.data.t = "null" THEN Thrown
            ELSE processTokenResponse(reply.data)

        TokenGrant(params, grantType, reply) ==
            IF Falsy(grantType) \/ grantType \notin GrantTypes
            THEN [response |-> UnsupportedGrantType, upstream |-> NoUpstreamRequest]
            ELSE [response |-> Catch(TokenReplied(reply), TokenServerError),
                  upstream |-> requestDocuSignToken(buildTokenRequestParams(grantType, params))]

        TokenParams(params, reply) ==
            TokenGrant(params, ParamsGet(params, Chars("grant_type")), reply)
    IN
    TokenParams(ParseQuery(body), answer)

\* POST /token of the superseded variant.
TokenPOSTLegacy(body, answer) ==
    LET
        \* The response of the superseded variant to a reply: the status of the
        \* upstream reply is the status of the response.
        TokenRepliedLegacy(reply) ==
            IF reply.kind # "json" \/ reply.data.t = "null" THEN Thrown
            ELSE [status |-> reply.status, location |-> NULL, error |-> NULL,
                  error_description |-> NULL, state |-> NULL, data |-> OverwriteScope(reply.data)]

        TokenForwardLegacy(docusignParams, reply) ==
            [response |-> Catch(TokenRepliedLegacy(reply), TokenServerError),
             upstream |-> requestDocuSignToken(docusignParams)]

        TokenGrantLegacy(params, grantType, reply) ==
            IF Falsy(DocusignClientId) \/ Falsy(DocusignClientSecret)
            THEN [response |-> createTokenErrorResponse(
                                   Chars("server_error"),
                                   Chars("DocuSign credentials not configured"), 500),
                  upstream |-> NoUpstreamRequest]
            ELSE IF grantType = Chars("authorization_code")
            THEN TokenForwardLegacy(CodeGrantParams(params), reply)
            ELSE IF grantType = Chars("refresh_token")
            THEN TokenForwardLegacy(RefreshGrantParams(params), reply)
            ELSE [response |-> UnsupportedGrantType, upstream |-> NoUpstreamRequest]

        TokenParamsLegacy(params, reply) ==
            TokenGrantLegacy(params, ParamsGet(params, Chars("grant_type")), reply)
    IN
    TokenParamsLegacy(ParseQuery(body), answer)

(***************************************************************************)
(* POST /register (src/api/auth/register.ts)                               *)
(***************************************************************************)

\* A UUID that is the same at every draw.
RepeatedUUID(n) == Chars("00000000-0000-4000-8000-000000000000")

\* crypto.randomUUID(), at the n-th draw of a run: a version 4 UUID that no
\* other draw gives (n < 100).
randomUUID(n) ==
    Chars("00000000-0000-4000-8000-0000000000") \o <<48 + (n \div 10), 48 + (n % 10)>>

\* POST /register for the Content-Type header and the body of the request,
\* when drawn UUIDs were drawn before it and Date.now() is dateNow.
RegisterPOST(contentType, body, drawn, dateNow) ==
    LET
        InvalidClientMetadata(description) ==
            [NoResponse EXCEPT !.status = 400, !.error = Chars("invalid_client_metadata"),
                               !.error_description = Chars(description)]

        \* clientRequest[name] || fallback
        OrDefault(clientRequest, name, fallback) ==
            [k |-> Chars(name),
             v |-> IF JFalsy(GetProp(clientRequest, Chars(name))) THEN fallback
                   ELSE GetProp(clientRequest, Chars(name))]

        \* if (clientRequest[name]) registrationResponse[name] = clientRequest[name]
        IfProvided(clientRequest, name) ==
            IF JFalsy(GetProp(clientRequest, Chars(name))) THEN <<>>
            ELSE << [k |-> Chars(name), v |-> GetProp(clientRequest, Chars(name))] >>

        \* createJsonResponse(registrationResponse, request): status 200
        Registered(clientRequest) ==
            [NoResponse EXCEPT
                !.status = 200,
                !.data = JObj(
                    << [k |-> Chars("client_id"),
                        v |-> JStr(Chars("mcp_") \o randomUUID(drawn + 1))],
                       [k |-> Chars("client_secret"),
                        v |-> JStr(Chars("secret_") \o randomUUID(drawn + 2))],
                       [k |-> Chars("client_id_issued_at"), v |-> JNum(dateNow \div 1000)],
                       [k |-> Chars("client_secret_expires_at"), v |-> JNum(0)],
                       OrDefault(clientRequest, "redirect_uris",
                                 JArrOf(<<JStr(Chars("https://mcp.example/auth/callback"))>>)),
                       OrDefault(clientRequest, "token_endpoint_auth_method",
                                 JStr(Chars("none"))),
                       OrDefault(clientRequest, "grant_types",
                                 JArrOf(<<JStr(Chars("authorization_code")),
                                        JStr(Chars("refresh_token"))>>)),
                       OrDefault(clientRequest, "response_types", JArrOf(<<JStr(Chars("code"))>>)),
                       OrDefault(clientRequest, "scope", JStr(DefaultScope)) >>
                    \o IfProvided(clientRequest, "client_name")
                    \o IfProvided(clientRequest, "client_uri")
                    \o IfProvided(clientRequest, "logo_uri")
                    \o IfProvided(clientRequest, "software_id")
                    \o IfProvided(clientRequest, "software_version"))]

        \* await request.json(), then the property reads: a body that is no JSON
        \* and the body null (clientRequest.redirect_uris of null) throw.
        Requested(parsed) ==
            IF ~parsed.ok \/ parsed.val.t = "null" THEN Thrown ELSE Registered(parsed.val)
    IN
    IF Falsy(contentType) \/ ~Includes(contentType, Chars("application/json"))
    THEN InvalidClientMetadata("Content-Type must be application/json")
    ELSE Catch(Requested(JSONparse(body)),
               InvalidClientMetadata("Invalid JSON in request body"))

(***************************************************************************)
(* The Docusign service (src/lib/docusign-service.ts and its successor in  *)
(* src/lib/oauth-response-utils.ts)                                        *)
(***************************************************************************)

\* What fetch gives for a request to the upstream: kind "http" is a response
\* with a status and a body text, kind "aborted" a response whose body cannot
\* be read (text() and json() reject), kind "rejected" a fetch that rejects.
HttpReply(status, text) == [kind |-> "http", status |-> status, text |-> Chars(text)]

\* response.ok
Ok(response) == response.kind # "rejected" /\ response.status \in 200..299

\* What a service function gives: the value it returns, or the error it
\* throws, an AppError(message, statusCode) or another Error; url is the URL
\* of the Navigator request, if one was made.
Returns(val) ==
    [ok |-> TRUE, val |-> val, message |-> <<>>, statusCode |-> 0, app |-> FALSE, url |-> NULL]

AppError(message, statusCode) ==
    [Returns(JUndefined) EXCEPT !.ok = FALSE, !.message = message,
                                !.statusCode = statusCode, !.app = TRUE]

\* An error of the runtime: a TypeError, a SyntaxError of JSON.parse, a
\* rejected fetch. The engine words its message.
RuntimeError == [Returns(JUndefined) EXCEPT !.ok = FALSE, !.message = Chars("fetch failed")]

\* The spelling of the product name in the messages of the two variants.
Brand(variant) == IF variant = "current" THEN Chars("Docusign") ELSE Chars("DocuSign")

\* await response.json()
ResponseJson(response) ==
    LET
        Parsed(r) == IF r.ok THEN Returns(r.val) ELSE RuntimeError
    IN
    IF response.kind # "http" THEN RuntimeError ELSE Parsed(JSONparse(response.text))

\* A validation whose result for a 401 of the user-info endpoint names no reason.
validateWithoutReason(variant, accessToken, userInfoRes) ==
    LET
        Invalid(error) == [isValid |-> FALSE, userInfo |-> JUndefined, error |-> error]

        \* const userInfo = await userInfoRes.json(); a rejection goes to the catch
        Validated(userInfo) ==
            IF userInfo.ok
            THEN [isValid |-> TRUE, userInfo |-> userInfo.val, error |-> NULL]
            ELSE Invalid(Brand(variant) \o Chars(" service unavailable"))
    IN
    IF Falsy(accessToken) THEN Invalid(Chars("Invalid access token"))
    ELSE IF userInfoRes.kind = "rejected"
    THEN Invalid(Brand(variant) \o Chars(" service unavailable"))
    ELSE IF ~Ok(userInfoRes)
    THEN IF userInfoRes.kind = "aborted"
         THEN Invalid(Brand(variant) \o Chars(" service unavailable"))
         ELSE IF userInfoRes.status = 401
         THEN Invalid(NULL)
         ELSE Invalid(Chars("Failed to validate token with ") \o Brand(variant))
    ELSE Validated(ResponseJson(userInfoRes))

\* A validation that takes every answer but a 401 for a valid token.
validateAllBut401(variant, accessToken, userInfoRes) ==
    IF Falsy(accessToken) \/ userInfoRes.kind # "http" \/ userInfoRes.status = 401
    THEN [isValid |-> FALSE, userInfo |-> JUndefined,
          error |-> Chars("Access token has expired or is invalid")]
    ELSE [isValid |-> TRUE, userInfo |-> JSONparse(userInfoRes.text).val, error |-> NULL]

\* validateDocuSignToken(accessToken), the user-info endpoint answering userInfoRes
validateDocuSignToken(variant, accessToken, userInfoRes) ==
    LET
        Invalid(error) == [isValid |-> FALSE, userInfo |-> JUndefined, error |-> error]

        \* const userInfo = await userInfoRes.json(); a rejection goes to the catch
        Validated(userInfo) ==
            IF userInfo.ok
            THEN [isValid |-> TRUE, userInfo |-> userInfo.val, error |-> NULL]
            ELSE Invalid(Brand(variant) \o Chars(" service unavailable"))
    IN
    IF Falsy(accessToken) THEN Invalid(Chars("Invalid access token"))
    ELSE IF userInfoRes.kind = "rejected"
    THEN Invalid(Brand(variant) \o Chars(" service unavailable"))
    ELSE IF ~Ok(userInfoRes)
    THEN IF userInfoRes.kind = "aborted"
         THEN Invalid(Brand(variant) \o Chars(" service unavailable"))
         ELSE IF userInfoRes.status = 401
         THEN Invalid(Chars("Access token has expired or is invalid"))
         ELSE Invalid(Chars("Failed to validate token with ") \o Brand(variant))
    ELSE Validated(ResponseJson(userInfoRes))

\* fetchUserAccountId(accessToken), and the same steps written out in the
\* superseded fetchAgreements and fetchAgreementById (which does not read the
\* body of a 401).
fetchUserAccountId(variant, apiName, userInfoRes) ==
    LET
        \* The message of a 401, from JSON.parse(errorText).error
        Unauthorized(errorData) ==
            IF ~errorData.ok THEN Chars("Invalid access token")
            ELSE IF GetProp(errorData.val, Chars("error")) = JStr(Chars("internal_server_error"))
            THEN Chars("Access token has expired or is invalid. Please re-authenticate with ")
                 \o Brand(variant) \o Chars(".")
            ELSE IF ~JFalsy(GetProp(errorData.val, Chars("error")))
            THEN Chars("Authentication failed: ")
                 \o ToStringJS(GetProp(errorData.val, Chars("error")))
            ELSE Chars("Invalid access token")

        ReadsBody == ~(variant = "superseded" /\ apiName = "agreement_by_id")

        \* userInfo.accounts[0].account_id
        FirstAccount(accounts) ==
            IF accounts.t # "arr" \/ Len(accounts.m) = 0
            THEN AppError(Chars("No ") \o Brand(variant) \o Chars(" accounts found for user"), 404)
            ELSE IF accounts.m[1].v.t = "null" THEN RuntimeError
            ELSE Returns(GetProp(accounts.m[1].v, Chars("account_id")))

        Accounts(userInfo) ==
            IF ~userInfo.ok \/ userInfo.val.t = "null" THEN RuntimeError
            ELSE IF JFalsy(GetProp(userInfo.val, Chars("accounts")))
            THEN AppError(Chars("No ") \o Brand(variant) \o Chars(" accounts found for user"), 404)
            ELSE FirstAccount(GetProp(userInfo.val, Chars("accounts")))
    IN
    IF userInfoRes.kind = "rejected" THEN RuntimeError
    ELSE IF ~Ok(userInfoRes)
    THEN IF ReadsBody /\ userInfoRes.kind = "aborted" THEN RuntimeError
         ELSE IF userInfoRes.status = 401
         THEN AppError(IF ReadsBody THEN Unauthorized(JSONparse(userInfoRes.text))
                       ELSE Chars("Invalid access token"), 401)
         ELSE AppError(Chars("Failed to retrieve user information"), userInfoRes.status)
    ELSE Accounts(ResponseJson(userInfoRes))

\* A request that takes every 404 of the Navigator API for a missing Navigator API.
makeRequestEvery404Navigator(variant, apiName, response) ==
    LET
        NavigatorHelp ==
            Chars(". To get access, please visit: https://developers.docusign.com/docs/navigator-api/")

        \* errorDetails: the body, or '' when it cannot be read
        Failed(errorDetails) ==
            IF response.status = 401 THEN AppError(Chars("Invalid access token"), 401)
            ELSE IF response.status = 403
            THEN AppError(Chars("Access denied - ") \o Brand(variant)
                          \o Chars(" Navigator may not be enabled for this account")
                          \o NavigatorHelp, 403)
            ELSE IF response.status = 404
            THEN IF \/ apiName \in {"agreements", "agreement_by_id"}
                    \/ Includes(errorDetails, Chars("Navigator"))
                    \/ Includes(errorDetails, Chars("not available"))
                 THEN AppError(Brand(variant)
                               \o Chars(" Navigator API not found - may not be available for this account")
                               \o NavigatorHelp, 404)
                 ELSE AppError(IF apiName = "agreement_by_id" THEN Chars("Agreement not found")
                               ELSE Chars("Resource not found"), 404)
            ELSE IF variant = "superseded" /\ apiName = "agreement_by_id"
            THEN AppError(Chars("Failed to retrieve agreement"), response.status)
            ELSE AppError(Chars("Failed to retrieve ") \o Chars(apiName) \o Chars(" (")
                          \o NumberToString(response.status) \o Chars("): ") \o errorDetails,
                          response.status)
    IN
    IF response.kind = "rejected" THEN RuntimeError
    ELSE IF ~Ok(response)
    THEN Failed(IF response.kind = "http" THEN response.text ELSE <<>>)
    ELSE ResponseJson(response)

\* makeDocuSignAPIRequest(url, accessToken, apiName), and the same steps
\* written out in the superseded fetchAgreements and fetchAgreementById.
makeDocuSignAPIRequest(variant, apiName, response) ==
    LET
        NavigatorHelp ==
            Chars(". To get access, please visit: https://developers.docusign.com/docs/navigator-api/")

        \* errorDetails: the body, or '' when it cannot be read
        Failed(errorDetails) ==
            IF response.status = 401 THEN AppError(Chars("Invalid access token"), 401)
            ELSE IF response.status = 403
            THEN AppError(Chars("Access denied - ") \o Brand(variant)
                          \o Chars(" Navigator may not be enabled for this account")
                          \o NavigatorHelp, 403)
            ELSE IF response.status = 404
            THEN IF \/ (variant = "superseded" /\ apiName = "agreements")
                    \/ Includes(errorDetails, Chars("Navigator"))
                    \/ Includes(errorDetails, Chars("not available"))
                 THEN AppError(Brand(variant)
                               \o Chars(" Navigator API not found - may not be available for this account")
                               \o NavigatorHelp, 404)
                 ELSE AppError(IF apiName = "agreement_by_id" THEN Chars("Agreement not found")
                               ELSE Chars("Resource not found"), 404)
            ELSE IF variant = "superseded" /\ apiName = "agreement_by_id"
            THEN AppError(Chars("Failed to retrieve agreement"), response.status)
            ELSE AppError(Chars("Failed to retrieve ") \o Chars(apiName) \o Chars(" (")
                          \o NumberToString(response.status) \o Chars("): ") \o errorDetails,
                          response.status)
    IN
    IF response.kind = "rejected" THEN RuntimeError
    ELSE IF ~Ok(response)
    THEN Failed(IF response.kind = "http" THEN response.text ELSE <<>>)
    ELSE ResponseJson(response)

\* The rest of fetchAgreements and fetchAgreementById after the checks of
\* their arguments: the account of the user, the Navigator request at path
\* under the account, and the catch that turns every error that is no
\* AppError into a 503.
NavigatorRequest(variant, apiName, path, userInfoRes, response) ==
    LET
        Unavailable(result) ==
            IF result.ok \/ result.app THEN result
            ELSE AppError(Brand(variant) \o Chars(" Navigator service unavailable"), 503)

        Requested(accountId) ==
            IF ~accountId.ok THEN accountId
            ELSE [makeDocuSignAPIRequest(variant, apiName, response) EXCEPT
                     !.url = Chars("https://api-d.docusign.com/v1/accounts/")
                             \o ToStringJS(accountId.val) \o path]
    IN
    Unavailable(Requested(fetchUserAccountId(variant, apiName, userInfoRes)))

\* fetchAgreements(accessToken)
fetchAgreements(variant, accessToken, userInfoRes, response) ==
    IF Falsy(accessToken) THEN AppError(Chars("Invalid access token"), 401)
    ELSE NavigatorRequest(variant, "agreements", Chars("/agreements"), userInfoRes, response)

\* fetchAgreementById(accessToken, agreementId)
fetchAgreementById(variant, accessToken, agreementId, userInfoRes, response) ==
    IF Falsy(accessToken) THEN AppError(Chars("Invalid access token"), 401)
    ELSE IF Falsy(agreementId) THEN AppError(Chars("Invalid agreement ID"), 400)
    ELSE NavigatorRequest(variant, "agreement_by_id", Chars("/agreements/") \o agreementId,
                          userInfoRes, response)

(***************************************************************************)
(* The state machine                                                       *)
(***************************************************************************)

\* The repository holds two variants of each OAuth handler: the current one
\* (on lib/config and lib/oauth-response-utils) and the superseded one it
\* replaced. A run is a run of one of them.
Builds == {"current", "superseded"}

\* The clock: Date.now() at the start of a run, the length of a step of the
\* clock (half the freshness window, so that a callback can come exactly at
\* the end of the window) and the number of steps.
StartMs == 1000000
TickMs == StateExpirationMs \div 2
MaxTicks == 3

\* The number of registrations of a run.
MaxRegistrations == 2

\* The number of requests to /mcp of a run.
MaxRequests == 2

VARIABLES
    build,        \* the variant that runs
    now,          \* Date.now()
    authReq,      \* the query parameters of the GET /authorize request
    authErr,      \* what validateAuthorizationRequest returned for it
    authResp,     \* the response to it
    authAt,       \* Date.now() when it was handled
    cbReq,        \* the query parameters of the GET /auth/callback request
    cbOrigin,     \* "upstream": the upstream's redirect; "forged": any other
    cbResp,       \* the response to it
    cbAt,         \* Date.now() when it was handled
    tokReq,       \* the form body of the POST /token request
    tokUpstream,  \* the request sent to the upstream token endpoint
    tokReply,     \* the upstream's reply to it
    tokResp,      \* the response to the POST /token request
    uriIn,        \* the argument of the redirect-URI validation
    uriOut,       \* its verdict
    codecIn,      \* the MCPClientInfo given to encodeStateParameter
    codecThrew,   \* encodeStateParameter threw
    codecStr,     \* the string given to decodeStateParameter
    codecOut,     \* what decodeStateParameter returned
    regLog,       \* the POST /register requests handled, with their responses
    uuidCount,    \* the number of UUIDs drawn
    verIn,        \* the bearer token given to the token verifier, and the upstream's reply
    verOut,       \* what the token verifier returned
    accepted,     \* the access tokens that the upstream accepts
    mcpLog,       \* the requests to /mcp handled, with what was done for each
    toolIn,       \* the call of a tool handler, and the upstream's replies to it
    toolOut,      \* what the tool handler returned
    svcIn,        \* the call of a function of the Docusign service, and the upstream's replies
    svcOut,       \* what the function returned or threw
    corsIn,       \* the endpoint answering with a JSON body, the answer's kind and the request's Origin
    corsOut,      \* the headers of that answer
    flowLog       \* the requests of concurrent authorization flows handled, with their responses

authVars == <<authReq, authErr, authResp, authAt>>
cbVars == <<cbReq, cbOrigin, cbResp, cbAt>>
tokVars == <<tokReq, tokUpstream, tokReply, tokResp>>
uriVars == <<uriIn, uriOut>>
codecVars == <<codecIn, codecThrew, codecStr, codecOut>>
regVars == <<regLog, uuidCount>>
oauthVars == <<authVars, cbVars, tokVars, uriVars, codecVars, regVars>>
svcVars == <<svcIn, svcOut>>
corsVars == <<corsIn, corsOut>>
flowVars == <<flowLog>>
mcpVars == <<verIn, verOut, accepted, mcpLog, toolIn, toolOut, svcVars, corsVars, flowVars>>

\* Before the first call of an operation.
NoCall == [tool |-> "none"]

\* The access tokens of a run.
Tokens == {Chars("t1"), Chars("t2")}

\* In place of an AuthInfo: undefined.
NoAuthInfo == [token |-> NULL, scopes |-> <<>>, clientId |-> NULL, userInfo |-> JUndefined]

\* In place of a tool response: the handler has not run.
NoToolResponse == [threw |-> FALSE, content |-> <<>>]

vars == <<build, now, oauthVars, mcpVars>>

NoAuthRequest ==
    [response_type |-> NULL, client_id |-> NULL, redirect_uri |-> NULL, scope |-> NULL,
     state |-> NULL, code_challenge |-> NULL, code_challenge_method |-> NULL,
     resource |-> NULL]

NoCallback == [code |-> NULL, state |-> NULL, error |-> NULL, error_description |-> NULL]

\* The state at the start of a run in which the tool call call is pending.
Start(call) ==
    /\ build \in Builds
    /\ now = StartMs
    /\ authReq = NoAuthRequest /\ authErr = NoError /\ authResp = NoResponse /\ authAt = 0
    /\ cbReq = NoCallback /\ cbOrigin = "none" /\ cbResp = NoResponse /\ cbAt = 0
    /\ tokReq = NULL /\ tokUpstream = NoUpstreamRequest /\ tokReply = NoReply
    /\ tokResp = NoResponse
    /\ uriIn = NULL /\ uriOut = FALSE
    /\ codecIn = <<>> /\ codecThrew = FALSE /\ codecStr = NULL /\ codecOut = JUndefined
    /\ regLog = <<>> /\ uuidCount = 0
    /\ verIn = NoCall /\ verOut = NoAuthInfo
    /\ accepted = Tokens /\ mcpLog = <<>>
    /\ toolIn = call /\ toolOut = NoToolResponse
    /\ svcIn = NoCall /\ svcOut = Returns(JUndefined)
    /\ corsIn = NoCall /\ corsOut = <<>>
    /\ flowLog = <<>>

Init == Start(NoCall)

\* Time passes.
Tick ==
    /\ now < StartMs + MaxTicks * TickMs
    /\ now' = now + TickMs
    /\ UNCHANGED <<build, authVars, cbVars, tokVars, uriVars, codecVars, regVars, mcpVars>>

\* A caller sends GET /authorize with the query parameters query.
Authorize(query) ==
    LET
        \* The validator and the handlers of the variant that runs.
        ValidatorOf(b, authRequest) ==
            IF b = "current" THEN validateAuthorizationRequest(authRequest)
            ELSE validateAuthorizationRequestLegacy(authRequest)

        AuthorizeOf(b, params, dateNow) ==
            IF b = "current" THEN AuthorizeGET(params, dateNow)
            ELSE AuthorizeGETLegacy(params, dateNow)
    IN
    /\ authResp = NoResponse
    /\ cbOrigin = "none"
    /\ authReq' = query
    /\ authErr' = ValidatorOf(build, ExtractAuthRequest(query))
    /\ authResp' = AuthorizeOf(build, query, now)
    /\ authAt' = now
    /\ UNCHANGED <<build, now, cbVars, tokVars, uriVars, codecVars, regVars, mcpVars>>

\* The response of GET /authorize sent the user to the upstream.
SentUpstream ==
    /\ authResp.status = 302
    /\ StartsWith(authResp.location, DocusignBaseUrl \o AuthorizationEndpoint \o <<63>>)

\* The upstream redirects the user to the callback, with the state of the
\* authorization URL passed through untouched.
UpstreamRedirect ==
    LET
        \* What the upstream's authorization ends with: a code, or an error with or
        \* without a description.
        UpstreamOutcomes ==
            { [code |-> Chars("abc"), error |-> NULL, error_description |-> NULL],
              [code |-> Chars("a/b+c=&d"), error |-> NULL, error_description |-> NULL],
              [code |-> NULL, error |-> Chars("access_denied"), error_description |-> NULL],
              [code |-> NULL, error |-> Chars("access_denied"),
               error_description |-> Chars("User denied access")] }

        \* The state parameter of the authorization URL, which the upstream relays.
        RelayedState(location) == ParamsGet(SearchParams(ParseURL(location)), Chars("state"))
    IN
    /\ SentUpstream
    /\ cbReq = NoCallback
    /\ \E r \in UpstreamOutcomes :
           cbReq' = [code |-> r.code, state |-> RelayedState(authResp.location),
                     error |-> r.error, error_description |-> r.error_description]
    /\ cbOrigin' = "upstream"
    /\ UNCHANGED <<build, now, authVars, cbResp, cbAt, tokVars, uriVars, codecVars, regVars, mcpVars>>

\* The state parameters of callbacks that no authorization led to: none, an
\* empty one, strings that are no percent-encoding, no base64 or no JSON, JSON
\* that is no object, objects without (usable) redirect_uri or timestamp, and
\* well-formed states with a timestamp that is fresh, that ages during the run,
\* or that is no number, and with a redirect_uri that GET /authorize refuses.
ForgedStates ==
    LET
        \* encodeURIComponent(btoa(text)): the state parameter that decodes to text
        StateOfText(text) == encodeURIComponent(btoa(text).v)

        \* The state parameter of a well-formed MCPClientInfo with the redirect_uri
        \* uri and the timestamp ts (as JSON text).
        StateOf(uri, ts) ==
            StateOfText(Chars("{\"client_id\":\"c1\",\"redirect_uri\":\"") \o uri
                        \o Chars("\",\"original_state\":\"s1\",\"timestamp\":") \o ts \o Chars("}"))

        \* Timestamps as JSON text: one that is fresh at every time of a run, and one
        \* that is a millisecond older than the start of the run.
        FreshStamp == NumberToString(StartMs + MaxTicks * TickMs)

        StaleStamp == NumberToString(StartMs - 1)
    IN
    { NULL, <<>>, Chars("%zz"), Chars("!not-base64!"),
      StateOfText(Chars("not json")),
      StateOfText(Chars("null")),
      StateOfText(Chars("5")),
      StateOfText(Chars("{}")),
      StateOfText(Chars("{\"timestamp\":") \o FreshStamp \o Chars("}")),
      StateOfText(Chars("{\"redirect_uri\":\"https://evil.example/x\"}")),
      StateOf(Chars("https://c.io/cb"), FreshStamp),
      StateOf(Chars("https://c.io/cb"), StaleStamp),
      StateOf(Chars("https://c.io/cb"), Chars("\"soon\"")),
      StateOf(Chars("no url"), FreshStamp),
      StateOf(Chars("http://evil.example/cb"), FreshStamp) }

ForgedCallbacks ==
    { [code |-> c, state |-> s, error |-> e.error, error_description |-> e.description] :
        c \in {NULL, <<>>, Chars("abc")},
        s \in ForgedStates,
        e \in { [error |-> NULL, description |-> NULL],
                [error |-> Chars("access_denied"), description |-> Chars("User denied access")],
                [error |-> Chars("server_error"), description |-> NULL] } }

\* Somebody sends GET /auth/callback with parameters of their own making. The
\* handlers share no state, so these are the runs without an authorization.
ForgedCallback(params) ==
    /\ authResp = NoResponse
    /\ cbReq = NoCallback /\ cbOrigin = "none"
    /\ cbReq' = params
    /\ cbOrigin' = "forged"
    /\ UNCHANGED <<build, now, authVars, cbResp, cbAt, tokVars, uriVars, codecVars, regVars, mcpVars>>

\* GET /auth/callback handles the request.
Callback ==
    LET
        CallbackOf(b, params, dateNow) ==
            IF b = "current" THEN CallbackGET(params, dateNow)
            ELSE CallbackGETLegacy(params, dateNow)
    IN
    /\ cbOrigin # "none"
    /\ cbResp = NoResponse
    /\ cbResp' = CallbackOf(build, cbReq, now)
    /\ cbAt' = now
    /\ UNCHANGED <<build, now, authVars, cbReq, cbOrigin, tokVars, uriVars, codecVars, regVars, mcpVars>>

\* POST /token handles a request.
Token(form, answer) ==
    LET
        TokenOf(b, body, reply) ==
            IF b = "current" THEN TokenPOST(body, reply) ELSE TokenPOSTLegacy(body, reply)

        \* What POST /token leaves behind; the upstream's reply is recorded when a
        \* request went upstream.
        TokenHandled(reply, r) ==
            /\ tokResp' = r.response
            /\ tokUpstream' = r.upstream
            /\ tokReply' = IF r.upstream = NoUpstreamRequest THEN NoReply ELSE reply
    IN
    /\ tokResp = NoResponse
    /\ TokenHandled(answer, TokenOf(build, form, answer))
    /\ tokReq' = form
    /\ UNCHANGED <<build, now, authVars, cbVars, uriVars, codecVars, regVars, mcpVars>>

\* POST /register handles a request.
Register(contentType, body) ==
    LET
        \* Two UUIDs are drawn for a registration, none for a refused request.
        Registration(response) ==
            /\ regLog' = Append(regLog, [contentType |-> contentType, body |-> body,
                                         at |-> now, response |-> response])
            /\ uuidCount' = IF response.status = 200 THEN uuidCount + 2 ELSE uuidCount
    IN
    /\ Len(regLog) < MaxRegistrations
    /\ Registration(RegisterPOST(contentType, body, uuidCount, now))
    /\ UNCHANGED <<build, now, authVars, cbVars, tokVars, uriVars, codecVars, mcpVars>>

(***************************************************************************)
(* The token verifier of /mcp (src/unnamed/part_010)                       *)
(***************************************************************************)

\* A verifier that remembers the tokens it has found valid: a bearer token
\* that an earlier request to /mcp was admitted with is valid without a look
\* at the answer of the user-info endpoint.
createCachingVerifier(variant, bearerToken, userInfoRes) ==
    LET
        Verified(validation) ==
            IF ~validation.isValid THEN NoAuthInfo
            ELSE [token |-> bearerToken, scopes |-> <<Chars("signature")>>,
                  clientId |-> Chars("unknown"), userInfo |-> validation.userInfo]
    IN
    IF Falsy(bearerToken) THEN NoAuthInfo
    ELSE IF \E i \in 1..Len(mcpLog) : mcpLog[i].token = bearerToken /\ mcpLog[i].ran
    THEN [token |-> bearerToken, scopes |-> <<Chars("signature")>>,
          clientId |-> Chars("unknown"), userInfo |-> JNull]
    ELSE Verified(validateDocuSignToken(variant, bearerToken, userInfoRes))

\* A verifier that gives a token the scopes that the user information names,
\* and the client that it names.
createVerifierOfGrantedScopes(variant, bearerToken, userInfoRes) ==
    LET
        Verified(validation) ==
            IF ~validation.isValid THEN NoAuthInfo
            ELSE [token |-> bearerToken,
                  scopes |-> Split(ToStringJS(GetProp(validation.userInfo, Chars("scope"))), 32),
                  clientId |-> ToStringJS(GetProp(validation.userInfo, Chars("client_id"))),
                  userInfo |-> validation.userInfo]
    IN
    IF Falsy(bearerToken) THEN NoAuthInfo
    ELSE Verified(validateDocuSignToken(variant, bearerToken, userInfoRes))

\* createTokenVerifier()(req, bearerToken), the user-info endpoint answering
\* userInfoRes: the AuthInfo, or undefined. validateDocuSignToken catches
\* every error of the request, so the catch of the verifier has nothing to do.
createTokenVerifier(variant, bearerToken, userInfoRes) ==
    LET
        Verified(validation) ==
            IF ~validation.isValid THEN NoAuthInfo
            ELSE [token |-> bearerToken, scopes |-> <<Chars("signature")>>,
                  clientId |-> Chars("unknown"), userInfo |-> validation.userInfo]
    IN
    IF Falsy(bearerToken) THEN NoAuthInfo
    ELSE Verified(validateDocuSignToken(variant, bearerToken, userInfoRes))

\* The token verifier is given a bearer token, and the upstream answers.
Verify(bearerToken, userInfoRes) ==
    /\ verIn' = [tool |-> "verify", token |-> bearerToken, reply |-> userInfoRes]
    /\ verOut' = createTokenVerifier(build, bearerToken, userInfoRes)
    /\ UNCHANGED <<build, now, oauthVars, svcVars, corsVars, flowVars, accepted, mcpLog, toolIn, toolOut>>

(***************************************************************************)
(* The tool handlers (src/lib/mcp/handlers, src/unnamed/part_008 and       *)
(* part_009) and their utilities (src/unnamed/part_010)                    *)
(***************************************************************************)

\* throw new Error(message); for a TypeError of the runtime the engine words
\* the message.
Error(message) == [RuntimeError EXCEPT !.message = Chars(message)]

\* { content: [{ type: 'text', text, annotation }] }
TextResponse(text, annotation) ==
    [threw |-> FALSE,
     content |-> << [type |-> "text", text |-> text, annotation |-> annotation] >>]

\* An error response that is thrown to the caller of the handler instead.
throwMCPError(error, description, toolName, additionalData) ==
    [threw |-> TRUE, content |-> <<>>]

\* createMCPErrorResponse(error, description, toolName, additionalData)
createMCPErrorResponse(error, description, toolName, additionalData) ==
    LET
        Tool == IF Falsy(toolName) THEN <<>> ELSE << [k |-> Chars("tool"), v |-> JStr(toolName)] >>

        Description ==
            IF Falsy(description) THEN <<>>
            ELSE << [k |-> Chars("error_description"), v |-> JStr(description)] >>
    IN
    TextResponse(Stringify(JObj(<< [k |-> Chars("error"), v |-> JStr(error)] >>
                                \o Description \o Tool), 2, 0),
                 JObj(<< [k |-> Chars("error"), v |-> JBool(TRUE)] >> \o Tool \o additionalData))

\* extractAccessToken(context, toolName): the token, or the Error it throws
extractAccessToken(authInfo) ==
    LET
        \* The white space that trim() removes, of the characters of the model.
        Blank == {9, 10, 11, 12, 13, 32}

        Trimmed(s, kept) ==
            IF kept = {} THEN <<>> ELSE SubSeq(s, FirstIn(kept, 0), LastIn(kept, 0))
    IN
    IF authInfo = NoAuthInfo \/ Falsy(authInfo.token)
    THEN Error("Access token is required but not provided in context")
    ELSE IF \A i \in 1..Len(authInfo.token) : authInfo.token[i] \in Blank
    THEN Error("Access token is empty or invalid")
    ELSE Returns(JStr(Trimmed(authInfo.token,
                              {i \in 1..Len(authInfo.token) : authInfo.token[i] \notin Blank})))

\* The access token of a handler: extractAccessToken(context) in the current
\* handlers, context.authInfo!.token in the superseded ones and in fetch.
AccessToken(variant, authInfo) ==
    IF variant = "current" THEN extractAccessToken(authInfo)
    ELSE IF authInfo = NoAuthInfo
    THEN Error("Cannot read properties of undefined (reading 'token')")
    ELSE Returns(JOfStr(authInfo.token))

\* A string argument of a service function: the value when it is a string.
StringOf(val) == IF val.t = "str" THEN val.s ELSE NULL

\* lines.join(sep), of strings
Join(lines, sep) ==
    Concat([i \in 1..Len(lines) |-> (IF i > 1 THEN sep ELSE <<>>) \o lines[i]])

\* new Date(val).toLocaleDateString(), and toLocaleString() when withTime, in
\* the locale en-US and the time zone UTC, for the dates that the upstream
\* writes as YYYY-MM-DD; any other string is no date.
LocaleDate(val, withTime) ==
    LET
        IsIsoDate(s) ==
            /\ Len(s) = 10 /\ s[5] = 45 /\ s[8] = 45
            /\ \A i \in {1, 2, 3, 4, 6, 7, 9, 10} : IsDigit(s[i])
            /\ DigitsValue(SubSeq(s, 6, 7)) \in 1..12
            /\ DigitsValue(SubSeq(s, 9, 10)) \in 1..28

        Formatted(s) ==
            NumberToString(DigitsValue(SubSeq(s, 6, 7))) \o <<47>>
            \o NumberToString(DigitsValue(SubSeq(s, 9, 10))) \o <<47>>
            \o NumberToString(DigitsValue(SubSeq(s, 1, 4)))
            \o (IF withTime THEN Chars(", 12:00:00 AM") ELSE <<>>)
    IN
    IF val.t = "str" /\ IsIsoDate(val.s) THEN Formatted(val.s) ELSE Chars("Invalid Date")

\* value.length > limit ? value.substring(0, limit) + '...' : value, in a
\* template string, for the truthy value of a summary: a string is cut, an
\* array longer than the limit has no substring, and any other value has no
\* length that is greater than the limit.
Snippet(val, limit) ==
    IF val.t = "str"
    THEN Returns(JStr(IF Len(val.s) > limit THEN SubSeq(val.s, 1, limit) \o Chars("...")
                      ELSE val.s))
    ELSE IF val.t = "arr" /\ Len(val.m) > limit
    THEN Error("agreement.summary.substring is not a function")
    ELSE Returns(val)

\* The names of the parties of an agreement, joined with ', ': each is
\* preferred_name || name_in_agreement || fallback; a fallback of NULL stands
\* for filter(Boolean), which drops a party without a name.
PartyNames(parties, fallback) ==
    LET
        Name(party) ==
            IF ~JFalsy(GetProp(party, Chars("preferred_name")))
            THEN ToStringJS(GetProp(party, Chars("preferred_name")))
            ELSE IF ~JFalsy(GetProp(party, Chars("name_in_agreement")))
            THEN ToStringJS(GetProp(party, Chars("name_in_agreement")))
            ELSE fallback

        Names == SelectSeq([i \in 1..Len(parties.m) |-> Name(parties.m[i].v)],
                           LAMBDA name : name # NULL)
    IN
    IF parties.t # "arr" THEN Error("agreement.parties.map is not a function")
    ELSE IF \E i \in 1..Len(parties.m) : parties.m[i].v.t = "null"
    THEN Error("Cannot read properties of null (reading 'preferred_name')")
    ELSE Returns(JStr(Join(Names, Chars(", "))))

\* The lines that get_agreements and get_agreement_by_id write for an
\* agreement, after its title line. style.list: the lines of get_agreements,
\* indented, with the summary cut at 100 characters; style.current: the
\* handlers on agreement-formatter.
AgreementLines(style, agreement) ==
    LET
        Indent == IF style.list THEN Chars("   ") ELSE <<>>

        \* `${agreement[name] || fallback}`
        Field(name, fallback) ==
            IF JFalsy(GetProp(agreement, Chars(name))) THEN Chars(fallback)
            ELSE ToStringJS(GetProp(agreement, Chars(name)))

        Formatter == style.current
        Unknown(what) ==
            IF Formatter /\ (~style.list \/ what \in {"Type", "Status"})
            THEN "Unknown " \o what ELSE "Unknown"

        provisions == GetProp(agreement, Chars("provisions"))
        metadata == GetProp(agreement, Chars("metadata"))
        summary == GetProp(agreement, Chars("summary"))
        parties == GetProp(agreement, Chars("parties"))

        \* parties.length > 0
        HasParties ==
            \/ (parties.t = "arr" /\ Len(parties.m) > 0)
            \/ (parties.t = "str" /\ Len(parties.s) > 0)
            \/ (parties.t = "obj" /\ GetProp(parties, Chars("length")).t = "num"
                /\ GetProp(parties, Chars("length")).n > 0)

        Optional(label, val, text) ==
            IF JFalsy(val) THEN <<>> ELSE << Indent \o Chars(label) \o text >>

        \* The lines, given the party names and the summary as they are written.
        Lines(names, cut) ==
            IF ~names.ok THEN names
            ELSE IF ~cut.ok THEN cut
            ELSE Returns(JStr(Join(
                << Indent \o Chars("ID: ") \o ToStringJS(GetProp(agreement, Chars("id"))),
                   Indent \o Chars("Type: ") \o Field("type", Unknown("Type")),
                   Indent \o Chars("Category: ") \o Field("category", Unknown("Category")),
                   Indent \o Chars("Status: ") \o Field("status", Unknown("Status")),
                   Indent \o Chars("File: ") \o Field("file_name", Unknown("File")) >>
                \o (IF names.val.t = "undefined" THEN <<>>
                    ELSE << Indent \o Chars("Parties: ") \o names.val.s >>)
                \o Optional("Effective Date: ", GetProp(provisions, Chars("effective_date")),
                            LocaleDate(GetProp(provisions, Chars("effective_date")), FALSE))
                \o Optional("Expiration Date: ", GetProp(provisions, Chars("expiration_date")),
                            LocaleDate(GetProp(provisions, Chars("expiration_date")), FALSE))
                \o Optional("Total Value: ", GetProp(provisions, Chars("total_agreement_value")),
                            ToStringJS(GetProp(provisions, Chars("total_agreement_value"))))
                \o (IF cut.val.t = "undefined" THEN <<>>
                    ELSE << Indent \o Chars("Summary: ") \o ToStringJS(cut.val) >>)
                \o Optional("Created: ", GetProp(metadata, Chars("created_at")),
                            LocaleDate(GetProp(metadata, Chars("created_at")), TRUE)),
                <<10>>)))

        \* formatPartiesList / parties.map(formatParty) in the handlers on
        \* agreement-formatter, the line only for a non-empty list in the others
        Names ==
            IF Formatter
            THEN IF JFalsy(parties) \/ (parties.t = "arr" /\ Len(parties.m) = 0)
                 THEN Returns(JStr(IF style.list THEN Chars("No parties specified") ELSE <<>>))
                 ELSE PartyNames(parties, Chars("Unknown Party"))
            ELSE IF JFalsy(parties) \/ ~HasParties THEN Returns(JUndefined)
            ELSE PartyNames(parties, NULL)

        Cut ==
            IF JFalsy(summary) THEN Returns(JUndefined)
            ELSE IF style.list THEN Snippet(summary, 100)
            ELSE IF Formatter /\ summary = JStr(Chars("No summary available"))
            THEN Returns(JUndefined)
            ELSE Returns(summary)
    IN
    IF agreement.t = "null" THEN Error("Cannot read properties of null (reading 'title')")
    ELSE Lines(Names, Cut)

\* value.length
LengthOf(val) ==
    IF val.t = "arr" THEN JNum(Len(val.m))
    ELSE IF val.t = "str" THEN JNum(Len(val.s))
    ELSE GetProp(val, Chars("length"))

\* The first result of the results that is an error, or else the results
\* joined with sep: what array.map(...).join(sep) gives when the function
\* mapped can throw.
JoinResults(results, sep) ==
    LET
        Thrown1(errors) ==
            IF errors # {} THEN results[FirstIn(errors, 0)]
            ELSE Returns(JStr(Join([i \in 1..Len(results) |-> results[i].val.s], sep)))
    IN
    Thrown1({i \in 1..Len(results) : ~results[i].ok})

\* getAgreementsHandler(input, context)
getAgreementsHandler(variant, authInfo, userInfoRes, response) ==
    LET
        current == variant = "current"

        \* The catch of the handler.
        Failed(error) ==
            IF current
            THEN createMCPErrorResponse(
                     Chars("fetch_failed"),
                     Chars("Failed to retrieve agreements: ") \o error.message,
                     Chars("get_agreements"), <<>>)
            ELSE TextResponse(Chars("Error retrieving agreements: ") \o error.message, JUndefined)

        Title(agreement) ==
            IF ~JFalsy(GetProp(agreement, Chars("title")))
            THEN ToStringJS(GetProp(agreement, Chars("title")))
            ELSE IF ~current THEN Chars("No Title")
            ELSE IF ~JFalsy(GetProp(agreement, Chars("file_name")))
            THEN ToStringJS(GetProp(agreement, Chars("file_name")))
            ELSE Chars("Untitled Agreement")

        Entry(agreement, index, lines) ==
            IF ~lines.ok THEN lines
            ELSE Returns(JStr(NumberToString(index) \o Chars(". ") \o Title(agreement)
                              \o <<10>> \o lines.val.s))

        Found(agreementsData, agreements, details) ==
            IF ~details.ok THEN Failed(details)
            ELSE TextResponse(
                     Chars("Found ") \o ToStringJS(LengthOf(agreements))
                     \o Chars(" DocuSign Navigator agreement")
                     \o (IF LengthOf(agreements) # JNum(1) THEN Chars("s") ELSE <<>>)
                     \o details.val.s,
                     JObj(<< [k |-> Chars("count"), v |-> LengthOf(agreements)],
                             [k |-> Chars("agreements"), v |-> agreements],
                             [k |-> Chars("rawData"), v |-> agreementsData] >>))

        \* agreements.length > 0 ? '\n\nAgreement Details:\n\n' + agreements.map(...).join('\n\n') : ''
        Details(agreements, length) ==
            IF length.nan \/ length.n <= 0 THEN Returns(JStr(<<>>))
            ELSE IF agreements.t # "arr" THEN Error("agreements.map is not a function")
            ELSE [JoinResults([i \in 1..Len(agreements.m) |->
                                  Entry(agreements.m[i].v, i,
                                        AgreementLines([list |-> TRUE, current |-> current],
                                                       agreements.m[i].v))],
                              <<10, 10>>)
                  EXCEPT !.val.s = <<10, 10>> \o Chars("Agreement Details:") \o <<10, 10>> \o @]

        Listed(agreementsData, agreements) ==
            Found(agreementsData, agreements, Details(agreements, ToNumber(LengthOf(agreements))))

        Fetched(agreementsData) ==
            IF ~agreementsData.ok THEN Failed(agreementsData)
            ELSE IF agreementsData.val.t = "null"
            THEN Failed(Error("Cannot read properties of null (reading 'data')"))
            ELSE Listed(agreementsData.val,
                        IF JFalsy(GetProp(agreementsData.val, Chars("data"))) THEN JArr(<<>>)
                        ELSE GetProp(agreementsData.val, Chars("data")))

        WithToken(accessToken) ==
            IF ~accessToken.ok THEN Failed(accessToken)
            ELSE Fetched(fetchAgreements(variant, StringOf(accessToken.val), userInfoRes, response))
    IN
    WithToken(AccessToken(variant, authInfo))

\* getAgreementByIdHandler({ agreementId }, context)
getAgreementByIdHandler(variant, agreementId, authInfo, userInfoRes, response) ==
    LET
        current == variant = "current"

        \* The catch of the handler.
        Failed(error) ==
            IF current
            THEN createMCPErrorResponse(
                     Chars("fetch_failed"),
                     Chars("Failed to retrieve agreement: ") \o error.message,
                     Chars("get_agreement_by_id"),
                     << [k |-> Chars("agreementId"), v |-> JOfStr(agreementId)] >>)
            ELSE TextResponse(Chars("Error retrieving agreement: ") \o error.message, JUndefined)

        Title(agreement) ==
            IF ~JFalsy(GetProp(agreement, Chars("title")))
            THEN ToStringJS(GetProp(agreement, Chars("title")))
            ELSE IF current THEN Chars("Untitled Agreement") ELSE Chars("No Title")

        Shown(agreement, lines) ==
            IF ~lines.ok THEN Failed(lines)
            ELSE TextResponse(
                     Chars("DocuSign Navigator Agreement Details:") \o <<10>>
                     \o Chars("Title: ") \o Title(agreement) \o <<10>> \o lines.val.s,
                     JObj(<< [k |-> Chars("agreement"), v |-> agreement],
                             [k |-> Chars("agreementId"), v |-> JOfStr(agreementId)],
                             [k |-> Chars("rawData"), v |-> agreement] >>))

        Fetched(agreementData) ==
            IF ~agreementData.ok THEN Failed(agreementData)
            ELSE Shown(agreementData.val,
                       AgreementLines([list |-> FALSE, current |-> current], agreementData.val))

        WithToken(accessToken) ==
            IF ~accessToken.ok THEN Failed(accessToken)
            ELSE Fetched(fetchAgreementById(variant, StringOf(accessToken.val), agreementId,
                                            userInfoRes, response))
    IN
    WithToken(AccessToken(variant, authInfo))

\* wrapInMCPFormat(data, annotation), and the same response written out in
\* the superseded searchHandler and in fetchHandler
wrapInMCPFormat(data, annotation) ==
    TextResponse(Stringify(data, 2, 0),
                 JObj(<< [k |-> Chars("chatgpt_format"), v |-> data] >> \o annotation))

\* The text snippet of a search result: the summary, cut at 200 characters,
\* or the type and the category of an agreement without a summary.
SearchSnippet(agreement) ==
    IF ~JFalsy(GetProp(agreement, Chars("summary")))
    THEN Snippet(GetProp(agreement, Chars("summary")), 200)
    ELSE Returns(JStr(
             (IF JFalsy(GetProp(agreement, Chars("type"))) THEN Chars("Agreement")
              ELSE ToStringJS(GetProp(agreement, Chars("type"))))
             \o Chars(" - ")
             \o (IF JFalsy(GetProp(agreement, Chars("category"))) THEN Chars("Unknown category")
                 ELSE ToStringJS(GetProp(agreement, Chars("category"))))))

\* createSearchResponse(agreements), and the same steps written out in the
\* superseded searchHandler: { results }, or the TypeError of the map.
createSearchResponse(agreements) ==
    LET
        Title(agreement) ==
            IF ~JFalsy(GetProp(agreement, Chars("title"))) THEN GetProp(agreement, Chars("title"))
            ELSE IF ~JFalsy(GetProp(agreement, Chars("file_name")))
            THEN GetProp(agreement, Chars("file_name"))
            ELSE JStr(Chars("Untitled Agreement"))

        Result(agreement, snippet) ==
            IF ~snippet.ok THEN snippet
            ELSE Returns(JObj(
                     << [k |-> Chars("id"), v |-> GetProp(agreement, Chars("id"))],
                        [k |-> Chars("title"), v |-> Title(agreement)],
                        [k |-> Chars("text"), v |-> snippet.val],
                        [k |-> Chars("url"),
                         v |-> JStr(Chars("https://navigator.docusign.com/agreement/")
                                    \o ToStringJS(GetProp(agreement, Chars("id"))))] >>))

        Mapped(results, errors) ==
            IF errors # {} THEN results[FirstIn(errors, 0)]
            ELSE Returns(JObj(<< [k |-> Chars("results"),
                                  v |-> JArrOf([i \in 1..Len(results) |-> results[i].val])] >>))

        Results(results) == Mapped(results, {i \in 1..Len(results) : ~results[i].ok})
    IN
    Results([i \in 1..Len(agreements) |-> Result(agreements[i], SearchSnippet(agreements[i]))])

\* searchHandler({ query }, context)
searchHandler(variant, query, authInfo, userInfoRes, response) ==
    LET
        \* The catch of the handler.
        Failed(error) ==
            wrapInMCPFormat(
                JObj(<< [k |-> Chars("results"), v |-> JArr(<<>>)],
                        [k |-> Chars("error"),
                         v |-> JStr(Chars("Search failed: ") \o error.message)] >>),
                << [k |-> Chars("query"), v |-> JOfStr(query)],
                   [k |-> Chars("error"), v |-> JBool(TRUE)] >>)

        \* agreement[name] || ''
        OrEmpty(agreement, name) ==
            IF JFalsy(GetProp(agreement, Chars(name))) THEN <<>>
            ELSE ToStringJS(GetProp(agreement, Chars(name)))

        parties(agreement) ==
            IF JFalsy(GetProp(agreement, Chars("parties"))) THEN JArr(<<>>)
            ELSE GetProp(agreement, Chars("parties"))

        \* [title, summary, type, category, file_name, ...parties].join(' ').toLowerCase()
        searchableText(agreement) ==
            ToLower(Join(
                << OrEmpty(agreement, "title"), OrEmpty(agreement, "summary"),
                   OrEmpty(agreement, "type"), OrEmpty(agreement, "category"),
                   OrEmpty(agreement, "file_name") >>
                \o [i \in 1..Len(parties(agreement).m) |->
                       OrEmpty(parties(agreement).m[i].v, "preferred_name") \o <<32>>
                       \o OrEmpty(parties(agreement).m[i].v, "name_in_agreement")],
                <<32>>))

        \* The callback of agreements.filter throws for this agreement.
        Throws(agreement) ==
            \/ agreement.t = "null"
            \/ parties(agreement).t # "arr"
            \/ \E i \in 1..Len(parties(agreement).m) : parties(agreement).m[i].v.t = "null"

        Responded(chatgptResponse, count) ==
            IF ~chatgptResponse.ok THEN Failed(chatgptResponse)
            ELSE wrapInMCPFormat(chatgptResponse.val,
                                 << [k |-> Chars("query"), v |-> JOfStr(query)],
                                    [k |-> Chars("count"), v |-> JNum(count)] >>)

        Filtered(filteredAgreements) ==
            Responded(createSearchResponse(filteredAgreements), Len(filteredAgreements))

        Filter(agreements, searchTerms) ==
            IF \E i \in 1..Len(agreements) : Throws(agreements[i])
            THEN Failed(Error("Cannot read properties of null (reading 'title')"))
            ELSE Filtered(SelectSeq(agreements,
                     LAMBDA agreement :
                         \E t \in 1..Len(searchTerms) :
                             Includes(searchableText(agreement), searchTerms[t])))

        Fetched(agreementsData, data) ==
            IF query = NULL
            THEN Failed(Error("Cannot read properties of undefined (reading 'toLowerCase')"))
            ELSE IF ~JFalsy(data) /\ data.t # "arr"
            THEN Failed(Error("agreements.filter is not a function"))
            ELSE Filter(IF JFalsy(data) THEN <<>> ELSE [i \in 1..Len(data.m) |-> data.m[i].v],
                        Split(ToLower(query), 32))

        Data(agreementsData) ==
            IF ~agreementsData.ok THEN Failed(agreementsData)
            ELSE IF agreementsData.val.t = "null"
            THEN Failed(Error("Cannot read properties of null (reading 'data')"))
            ELSE Fetched(agreementsData.val, GetProp(agreementsData.val, Chars("data")))

        WithToken(accessToken) ==
            IF ~accessToken.ok THEN Failed(accessToken)
            ELSE Data(fetchAgreements(variant, StringOf(accessToken.val), userInfoRes, response))
    IN
    WithToken(AccessToken(variant, authInfo))

\* fetchHandler({ id }, context); variant is the variant of the service
fetchHandler(variant, id, authInfo, userInfoRes, response) ==
    LET
        \* The catch of the handler.
        Failed(error) ==
            wrapInMCPFormat(
                JObj(<< [k |-> Chars("id"), v |-> JOfStr(id)],
                        [k |-> Chars("title"), v |-> JStr(Chars("Error"))],
                        [k |-> Chars("text"),
                         v |-> JStr(Chars("Failed to retrieve agreement: ") \o error.message)],
                        [k |-> Chars("url"), v |-> JStr(<<>>)],
                        [k |-> Chars("metadata"),
                         v |-> JObj(<< [k |-> Chars("error"), v |-> JBool(TRUE)],
                                       [k |-> Chars("parties_count"), v |-> JNum(0)],
                                       [k |-> Chars("has_provisions"), v |-> JBool(FALSE)],
                                       [k |-> Chars("raw_data"), v |-> JObj(<<>>)] >>)] >>),
                << [k |-> Chars("agreement_id"), v |-> JOfStr(id)],
                   [k |-> Chars("error"), v |-> JBool(TRUE)] >>)

        \* `${label}${agreement[name] || fallback}`
        Field(agreement, label, name, fallback) ==
            Chars(label) \o (IF JFalsy(GetProp(agreement, Chars(name))) THEN Chars(fallback)
                             ELSE ToStringJS(GetProp(agreement, Chars(name))))

        Optional(label, val, text) == IF JFalsy(val) THEN <<>> ELSE << Chars(label) \o text >>

        Title(agreement) ==
            IF ~JFalsy(GetProp(agreement, Chars("title"))) THEN GetProp(agreement, Chars("title"))
            ELSE IF ~JFalsy(GetProp(agreement, Chars("file_name")))
            THEN GetProp(agreement, Chars("file_name"))
            ELSE JStr(Chars("Untitled Agreement"))

        \* agreement.parties && agreement.parties.length > 0
        HasParties(val) ==
            ~JFalsy(val) /\ ~ToNumber(LengthOf(val)).nan /\ ToNumber(LengthOf(val)).n > 0

        \* The numbered lines of the parties.
        PartyLines(val) ==
            [i \in 1..Len(val.m) |->
                NumberToString(i) \o Chars(". ")
                \o (IF ~JFalsy(GetProp(val.m[i].v, Chars("preferred_name")))
                    THEN ToStringJS(GetProp(val.m[i].v, Chars("preferred_name")))
                    ELSE IF ~JFalsy(GetProp(val.m[i].v, Chars("name_in_agreement")))
                    THEN ToStringJS(GetProp(val.m[i].v, Chars("name_in_agreement")))
                    ELSE Chars("Unknown Party"))]

        textParts(agreement, provisions, createdAt) ==
            << Field(agreement, "Title: ", "title", "Untitled Agreement"),
               Field(agreement, "Type: ", "type", "Unknown"),
               Field(agreement, "Category: ", "category", "Unknown"),
               Field(agreement, "Status: ", "status", "Unknown"),
               Field(agreement, "File: ", "file_name", "Unknown") >>
            \o (IF HasParties(GetProp(agreement, Chars("parties")))
                THEN << <<10>> \o Chars("Parties:") >>
                     \o PartyLines(GetProp(agreement, Chars("parties")))
                ELSE <<>>)
            \o (IF JFalsy(provisions) THEN <<>>
                ELSE << <<10>> \o Chars("Key Provisions:") >>
                     \o Optional("Effective Date: ", GetProp(provisions, Chars("effective_date")),
                                 LocaleDate(GetProp(provisions, Chars("effective_date")), FALSE))
                     \o Optional("Expiration Date: ",
                                 GetProp(provisions, Chars("expiration_date")),
                                 LocaleDate(GetProp(provisions, Chars("expiration_date")), FALSE))
                     \o Optional("Total Value: ",
                                 GetProp(provisions, Chars("total_agreement_value")),
                                 ToStringJS(GetProp(provisions, Chars("total_agreement_value")))))
            \o (IF JFalsy(GetProp(agreement, Chars("summary"))) THEN <<>>
                ELSE << <<10>> \o Chars("Summary:") \o <<10>>
                        \o ToStringJS(GetProp(agreement, Chars("summary"))) >>)
            \o (IF JFalsy(createdAt) THEN <<>>
                ELSE << <<10>> \o Chars("Created: ") \o LocaleDate(createdAt, TRUE) >>)

        chatgptResponse(agreement, provisions, createdAt) ==
            JObj(<< [k |-> Chars("id"), v |-> GetProp(agreement, Chars("id"))],
                    [k |-> Chars("title"), v |-> Title(agreement)],
                    [k |-> Chars("text"),
                     v |-> JStr(Join(textParts(agreement, provisions, createdAt), <<10>>))],
                    [k |-> Chars("url"),
                     v |-> JStr(Chars("https://navigator.docusign.com/agreement/")
                                \o ToStringJS(GetProp(agreement, Chars("id"))))],
                    [k |-> Chars("metadata"),
                     v |-> JObj(
                         << [k |-> Chars("type"), v |-> GetProp(agreement, Chars("type"))],
                            [k |-> Chars("category"), v |-> GetProp(agreement, Chars("category"))],
                            [k |-> Chars("status"), v |-> GetProp(agreement, Chars("status"))],
                            [k |-> Chars("file_name"),
                             v |-> GetProp(agreement, Chars("file_name"))],
                            [k |-> Chars("created_at"), v |-> createdAt],
                            [k |-> Chars("parties_count"),
                             v |-> IF JFalsy(LengthOf(GetProp(agreement, Chars("parties"))))
                                   THEN JNum(0)
                                   ELSE LengthOf(GetProp(agreement, Chars("parties")))],
                            [k |-> Chars("has_provisions"), v |-> JBool(~JFalsy(provisions))],
                            [k |-> Chars("raw_data"), v |-> agreement] >>)] >>)

        Built(agreement, response1) ==
            wrapInMCPFormat(response1,
                            << [k |-> Chars("agreement_id"), v |-> JOfStr(id)],
                               [k |-> Chars("title"), v |-> GetProp(response1, Chars("title"))] >>)

        Fetched(agreement) ==
            IF ~agreement.ok THEN Failed(agreement)
            ELSE IF agreement.val.t = "null"
            THEN Failed(Error("Cannot read properties of null (reading 'title')"))
            ELSE IF /\ HasParties(GetProp(agreement.val, Chars("parties")))
                    /\ GetProp(agreement.val, Chars("parties")).t # "arr"
            THEN Failed(Error("agreement.parties.forEach is not a function"))
            ELSE IF /\ GetProp(agreement.val, Chars("parties")).t = "arr"
                    /\ \E i \in 1..Len(GetProp(agreement.val, Chars("parties")).m) :
                           GetProp(agreement.val, Chars("parties")).m[i].v.t = "null"
            THEN Failed(Error("Cannot read properties of null (reading 'preferred_name')"))
            ELSE Built(agreement.val,
                       chatgptResponse(agreement.val,
                                       GetProp(agreement.val, Chars("provisions")),
                                       GetProp(GetProp(agreement.val, Chars("metadata")),
                                               Chars("created_at"))))

        WithToken(accessToken) ==
            IF ~accessToken.ok THEN Failed(accessToken)
            ELSE Fetched(fetchAgreementById(variant, StringOf(accessToken.val), id,
                                            userInfoRes, response))
    IN
    WithToken(AccessToken("superseded", authInfo))

\* authStatusHandler(input, context), the user-info endpoint answering userInfoRes
authStatusHandler(variant, authInfo, userInfoRes) ==
    LET
        Line(label, val, fallback) ==
            Chars(label) \o (IF JFalsy(val) THEN Chars(fallback) ELSE ToStringJS(val))

        \* The status text, defaultAccount being undefined when there is none.
        Status(user, defaultAccount) ==
            TextResponse(
                Chars("Authentication Status: VALID") \o <<10, 10>>
                \o Line("User: ", GetProp(user, Chars("name")), "Unknown") \o <<10>>
                \o Line("Email: ", GetProp(user, Chars("email")), "Unknown") \o <<10>>
                \o Line("Default Account: ", GetProp(defaultAccount, Chars("account_name")),
                        "Unknown") \o <<10>>
                \o Line("Account ID: ", GetProp(defaultAccount, Chars("account_id")), "Unknown"),
                JUndefined)

        \* The catch of the handler.
        Failed(error) ==
            IF variant = "current"
            THEN createMCPErrorResponse(
                     Chars("internal_error"),
                     Chars("Authentication status check failed: ") \o error.message,
                     Chars("auth_status"), <<>>)
            ELSE TextResponse(Chars("Authentication Status: ERROR") \o <<10>>
                              \o Chars("Error: ") \o error.message, JUndefined)

        \* user?.accounts?.find(acc => acc.is_default)
        Find(user, accounts, defaults, nulls) ==
            IF accounts.t \in {"null", "undefined"} THEN Status(user, JUndefined)
            ELSE IF accounts.t # "arr" THEN Failed(Error("user?.accounts?.find is not a function"))
            ELSE IF nulls # {} /\ (defaults = {} \/ FirstIn(nulls, 0) < FirstIn(defaults, 0))
            THEN Failed(Error("Cannot read properties of null (reading 'is_default')"))
            ELSE IF defaults = {} THEN Status(user, JUndefined)
            ELSE Status(user, accounts.m[FirstIn(defaults, 0)].v)

        Accounts(user, accounts) ==
            Find(user, accounts,
                 {i \in 1..Len(accounts.m) :
                     ~JFalsy(GetProp(accounts.m[i].v, Chars("is_default")))},
                 {i \in 1..Len(accounts.m) : accounts.m[i].v.t = "null"})

        Validated(validationResult) ==
            IF ~validationResult.isValid
            THEN IF variant = "current"
                 THEN createMCPErrorResponse(
                          Chars("authentication_failed"),
                          OrElse(validationResult.error, Chars("Token validation failed")),
                          Chars("auth_status"), <<>>)
                 ELSE TextResponse(
                          Chars("Authentication Status: INVALID") \o <<10>> \o Chars("Error: ")
                          \o OrElse(validationResult.error, Chars("Token validation failed")),
                          JUndefined)
            ELSE Accounts(validationResult.userInfo,
                          GetProp(validationResult.userInfo, Chars("accounts")))

        WithToken(accessToken) ==
            IF ~accessToken.ok THEN Failed(accessToken)
            ELSE Validated(validateDocuSignToken(variant, StringOf(accessToken.val), userInfoRes))
    IN
    WithToken(AccessToken(variant, authInfo))

\* The handler of the tool auth_status answers the pending call.
AuthStatus ==
    /\ toolIn.tool = "auth_status" /\ toolOut = NoToolResponse
    /\ toolOut' = authStatusHandler(build, toolIn.authInfo, toolIn.userInfoRes)
    /\ UNCHANGED <<build, now, oauthVars, svcVars, corsVars, flowVars, verIn, verOut, accepted, mcpLog, toolIn>>

\* The handler of the tool get_agreements answers the pending call.
GetAgreements ==
    /\ toolIn.tool = "get_agreements" /\ toolOut = NoToolResponse
    /\ toolOut' = getAgreementsHandler(build, toolIn.authInfo, toolIn.userInfoRes,
                                       toolIn.response)
    /\ UNCHANGED <<build, now, oauthVars, svcVars, corsVars, flowVars, verIn, verOut, accepted, mcpLog, toolIn>>

\* The handler of the tool get_agreement_by_id answers the pending call.
GetAgreementById ==
    /\ toolIn.tool = "get_agreement_by_id" /\ toolOut = NoToolResponse
    /\ toolOut' = getAgreementByIdHandler(build, toolIn.input, toolIn.authInfo,
                                          toolIn.userInfoRes, toolIn.response)
    /\ UNCHANGED <<build, now, oauthVars, svcVars, corsVars, flowVars, verIn, verOut, accepted, mcpLog, toolIn>>

\* The handler of the tool search answers the pending call.
Search ==
    /\ toolIn.tool = "search" /\ toolOut = NoToolResponse
    /\ toolOut' = searchHandler(build, toolIn.input, toolIn.authInfo, toolIn.userInfoRes,
                                toolIn.response)
    /\ UNCHANGED <<build, now, oauthVars, svcVars, corsVars, flowVars, verIn, verOut, accepted, mcpLog, toolIn>>

\* The handler of the tool fetch answers the pending call.
Fetch ==
    /\ toolIn.tool = "fetch" /\ toolOut = NoToolResponse
    /\ toolOut' = fetchHandler(build, toolIn.input, toolIn.authInfo, toolIn.userInfoRes,
                               toolIn.response)
    /\ UNCHANGED <<build, now, oauthVars, svcVars, corsVars, flowVars, verIn, verOut, accepted, mcpLog, toolIn>>

\* The redirect-URI validation is applied to a string.
ValidateUri(uri) ==
    LET
        RedirectUriValidOf(b, redirectUri) ==
            IF b = "current" THEN validateRedirectUri(redirectUri) = NoError
            ELSE isValidRedirectUri(redirectUri)
    IN
    /\ uriIn = NULL
    /\ uriIn' = uri
    /\ uriOut' = RedirectUriValidOf(build, uri)
    /\ UNCHANGED <<build, now, authVars, cbVars, tokVars, codecVars, regVars, mcpVars>>

\* encodeStateParameter is applied to an MCPClientInfo.
Encode(mcpClientInfo) ==
    LET
        \* What encodeStateParameter leaves behind.
        Encoded(e) ==
            /\ codecThrew' = ~e.ok
            /\ codecStr' = IF e.ok THEN e.v ELSE NULL
    IN
    /\ codecIn = <<>> /\ codecStr = NULL /\ ~codecThrew
    /\ codecIn' = mcpClientInfo
    /\ Encoded(encodeStateParameter(mcpClientInfo))
    /\ UNCHANGED <<build, now, authVars, cbVars, tokVars, uriVars, regVars, mcpVars, codecOut>>

\* A string that encodeStateParameter did not produce arrives.
Supply(text) ==
    /\ codecIn = <<>> /\ codecStr = NULL /\ ~codecThrew
    /\ codecStr' = text
    /\ UNCHANGED <<build, now, authVars, cbVars, tokVars, uriVars, regVars, mcpVars, codecIn,
                   codecThrew, codecOut>>

\* decodeStateParameter is applied to the string.
Decode ==
    /\ codecStr # NULL
    /\ codecOut = JUndefined
    /\ codecOut' = decodeStateParameter(codecStr)
    /\ UNCHANGED <<build, now, authVars, cbVars, tokVars, uriVars, regVars, mcpVars, codecIn,
                   codecThrew, codecStr>>

(***************************************************************************)
(* The requests of the runs                                                *)
(***************************************************************************)

\* A well-formed authorization request, and the requests of the relay runs:
\* with and without a state, with a state of Latin-1 and reserved characters,
\* with an empty state, with a redirect_uri that has a query (and a state
\* parameter) of its own, with a scope and a resource, one that fails
\* validation and one whose state btoa cannot take.
BaseQuery ==
    [response_type |-> Chars("code"), client_id |-> Chars("c1"),
     redirect_uri |-> Chars("https://c.io/cb"), scope |-> NULL, state |-> NULL,
     code_challenge |-> Chars("ch"), code_challenge_method |-> Chars("S256"),
     resource |-> NULL]

FlowQueries ==
    { BaseQuery,
      [BaseQuery EXCEPT !.state = Chars("s1")],
      [BaseQuery EXCEPT !.state = <<115, 32, 233, 38, 61>>],
      [BaseQuery EXCEPT !.state = <<>>],
      [BaseQuery EXCEPT !.redirect_uri = Chars("https://c.io/cb?a=1&state=own")],
      [BaseQuery EXCEPT !.redirect_uri = Chars("https://c.io/cb?a=1&state=own"),
                        !.state = Chars("s1")],
      [BaseQuery EXCEPT !.redirect_uri = Chars("http://localhost:3000/cb#top"),
                        !.state = Chars("s1"), !.scope = Chars("signature+models_read"),
                        !.resource = Chars("https://r.io/mcp")],
      [BaseQuery EXCEPT !.response_type = Chars("token"), !.state = Chars("s1")],
      [BaseQuery EXCEPT !.state = <<10003>>] }

\* The authorization requests of the validation runs: every combination of a
\* passing and failing value of each parameter.
AuthQueries ==
    { [response_type |-> rt, client_id |-> cid, redirect_uri |-> uri, scope |-> sc,
       state |-> st, code_challenge |-> ch, code_challenge_method |-> m, resource |-> rs] :
        rt \in {Chars("code"), Chars("token")},
        cid \in {NULL, Chars("c1")},
        uri \in {NULL, Chars("https://c.io/cb"), Chars("http://example.com/cb"),
                 Chars("javascript://x"), Chars("http://[::1]:3000/cb"), Chars("no url"),
                 Chars("https://c.io/cb?a=1&state=own")},
        sc \in {NULL, Chars("signature+models_read"), Chars("signature admin")},
        st \in {NULL, Chars("s1"), <<10003>>},
        ch \in {NULL, Chars("ch")},
        m \in {Chars("S256"), Chars("plain")},
        rs \in {NULL, Chars("https://r.io/mcp"), Chars("no uri")} }

\* The strings given to the redirect-URI validation: a scheme, "://", a host
\* and a port and path; and some strings of other shapes.
RedirectUris ==
    { sch \o Chars("://") \o host \o tail :
        sch \in {Chars("https"), Chars("http"), Chars("vscode"), Chars("ms-vscode"),
                 Chars("chrome-extension"), Chars("moz-extension"), Chars("javascript"),
                 Chars("data"), Chars("vbscript"), Chars("file"), Chars("ftp"),
                 Chars("HTTP"), Chars("Https")},
        host \in {Chars("example.com"), Chars("localhost"), Chars("127.0.0.1"),
                  Chars("[::1]"), Chars("LOCALHOST"), Chars("localhost.evil.com"),
                  Chars("127.0.0.2")},
        tail \in {Chars("/cb"), Chars(":3000/cb")} }
    \cup { <<>>, Chars("no url"), Chars("example.com/cb"), Chars("localhost:3000/cb"),
           Chars("//localhost/cb"), Chars("https://"), Chars("http://localhost"),
           Chars("http://user@localhost/cb"), Chars("http://[::1]/cb"),
           Chars("https://c.io/cb?a=1#top") }

\* The form bodies of the token requests: with every grant_type or none, with
\* and without the other fields; a body with two grant types; and bodies that
\* carry a redirect_uri, a client_id and a client_secret of the caller's.
TokenBodies ==
    { SerializeQuery(Present(<< [k |-> Chars("grant_type"), v |-> g],
                                [k |-> Chars("code"), v |-> c],
                                [k |-> Chars("code_verifier"), v |-> cv],
                                [k |-> Chars("refresh_token"), v |-> rt] >>)) :
        g \in {NULL, <<>>, Chars("authorization_code"), Chars("refresh_token"),
               Chars("password"), Chars("client_credentials"), Chars("AUTHORIZATION_CODE"),
               Chars("refresh_token ")},
        c \in {NULL, Chars("c1")},
        cv \in {NULL, Chars("v1")},
        rt \in {NULL, Chars("r1")} }
    \cup { Chars("grant_type=password&grant_type=authorization_code&code=c1") }
    \cup { Chars("grant_type=") \o g
             \o Chars("&code=a%2Fb%2Bc%3D%26d&code=c2&code_verifier=v+1&refresh_token=r%261")
             \o Chars("&redirect_uri=https%3A%2F%2Fevil.example%2Fcb&client_id=their-id")
             \o Chars("&client_secret=their-secret&scope=openid") :
            g \in {Chars("authorization_code"), Chars("refresh_token")} }

\* The replies of the upstream token endpoint.
UpstreamReplies ==
    LET
        \* The bodies of the upstream's replies: a grant, a refusal.
        GrantedData ==
            JObj(<< [k |-> Chars("access_token"), v |-> JStr(Chars("at"))],
                    [k |-> Chars("token_type"), v |-> JStr(Chars("Bearer"))],
                    [k |-> Chars("scope"), v |-> JStr(Chars("signature"))] >>)

        RefusedData == JObj(<< [k |-> Chars("error"), v |-> JStr(Chars("invalid_grant"))] >>)

        \* Grants with another scope value, or none, after the token.
        GrantedWith(scope) ==
            JObj(<< [k |-> Chars("access_token"), v |-> JStr(Chars("at"))] >>
                 \o (IF scope = JUndefined THEN <<>>
                     ELSE << [k |-> Chars("scope"), v |-> scope] >>)
                 \o << [k |-> Chars("expires_in"), v |-> JNum(3600)] >>)

        \* A grant with every field of a token response and one more.
        FullGrant ==
            JObj(<< [k |-> Chars("token_type"), v |-> JStr(Chars("bearer"))],
                    [k |-> Chars("access_token"), v |-> JStr(Chars("at"))],
                    [k |-> Chars("scope"), v |-> JStr(Chars("signature impersonation"))],
                    [k |-> Chars("expires_in"), v |-> JNum(28800)],
                    [k |-> Chars("refresh_token"), v |-> JStr(Chars("rt"))],
                    [k |-> Chars("user_api"), v |-> JObj(<< [k |-> Chars("v"), v |-> JNum(2)] >>)] >>)

        \* A payload whose access_token is the empty string.
        EmptyToken ==
            JObj(<< [k |-> Chars("access_token"), v |-> JStr(<<>>)],
                    [k |-> Chars("scope"), v |-> JStr(Chars("signature"))] >>)
    IN
    { [kind |-> "json", status |-> st, data |-> d] :
        st \in {200, 400, 401, 500}, d \in {GrantedData, RefusedData, JNull} }
    \cup { [kind |-> "json", status |-> 200, data |-> d] :
            d \in {GrantedWith(JUndefined), GrantedWith(JStr(<<>>)), GrantedWith(JNull),
                   GrantedWith(JStr(DefaultScope \o Chars(" extended"))),
                   GrantedWith(JArrOf(<<JStr(Chars("signature"))>>)), EmptyToken, FullGrant} }
    \cup { [kind |-> "notjson", status |-> st, data |-> JUndefined] : st \in {200, 502} }
    \cup { [kind |-> "rejected", status |-> 0, data |-> JUndefined] }

\* The user information of the upstream, of a user with two accounts of which
\* the second is the default one.
UserInfoBody ==
    "{\"sub\":\"u1\",\"name\":\"Ann\",\"email\":\"a@c.io\",\"accounts\":["
    \o "{\"account_id\":\"acc-1\",\"is_default\":false,\"account_name\":\"One\"},"
    \o "{\"account_id\":\"acc-2\",\"is_default\":true,\"account_name\":\"Two\"}]}"

\* Replies of the user-info endpoint: every status with every body, a response
\* whose body cannot be read, and no response at all.
UserInfoReplies ==
    { HttpReply(status, text) :
        status \in {200, 201, 401, 403, 500},
        text \in {UserInfoBody, "", "null", "<html>Bad Gateway</html>",
                  "{\"error\":\"internal_server_error\"}", "{\"error\":\"invalid_token\"}"} }
    \cup { [kind |-> "aborted", status |-> status, text |-> <<>>] : status \in {200, 401} }
    \cup { [kind |-> "rejected", status |-> 0, text |-> <<>>] }

\* The agreements of the upstream: three, of which only the first has NDA in
\* its title, and none of the others has it anywhere.
AgreementsBody ==
    "{\"data\":[{\"id\":\"a1\",\"title\":\"Acme NDA\",\"type\":\"Nda\",\"status\":\"ACTIVE\","
    \o "\"parties\":[{\"preferred_name\":\"Acme\"},{\"name_in_agreement\":\"Initech\"}],"
    \o "\"provisions\":{\"effective_date\":\"2024-03-09\"}},"
    \o "{\"id\":\"a2\",\"title\":\"Office Lease\",\"summary\":\"Lease of the office\","
    \o "\"category\":\"Property\"},"
    \o "{\"id\":\"a3\",\"file_name\":\"supply.pdf\","
    \o "\"parties\":[{\"name_in_agreement\":\"Globex\"}]}]}"

\* An agreement of the upstream.
AgreementBody ==
    "{\"id\":\"a1\",\"title\":\"Acme NDA\",\"type\":\"Nda\",\"status\":\"ACTIVE\","
    \o "\"summary\":\"Mutual\",\"parties\":[{\"preferred_name\":\"Acme\"},{}],"
    \o "\"provisions\":{\"effective_date\":\"2024-03-09\",\"total_agreement_value\":\"5\"},"
    \o "\"metadata\":{\"created_at\":\"soon\"}}"

\* The calls of the tool handlers: the tool, its input (the query of search,
\* the id of the others), the authInfo of the context, and the replies of the
\* user-info endpoint and of the Navigator API.
ToolCalls ==
    LET
        AuthInfoOf(token) ==
            [token |-> token, scopes |-> <<Chars("signature")>>, clientId |-> Chars("unknown"),
             userInfo |-> JUndefined]

        Contexts == {NoAuthInfo, AuthInfoOf(Chars("t1")), AuthInfoOf(Chars(" t1 ")),
                     AuthInfoOf(Chars("  ")), AuthInfoOf(<<>>)}

        UserInfo == HttpReply(200, UserInfoBody)

        Unread(status) == [kind |-> "aborted", status |-> status, text |-> <<>>]
        NoResponse1 == [kind |-> "rejected", status |-> 0, text |-> <<>>]

        UserInfoFailures ==
            { HttpReply(200, text) :
                text \in {"null", "{}", "{\"accounts\":[]}", "{\"accounts\":[null]}",
                          "{\"accounts\":\"x\"}", "{\"accounts\":[{}]}", "<html></html>"} }
            \cup { HttpReply(401, text) :
                     text \in {"", "{\"error\":\"internal_server_error\"}",
                               "{\"error\":\"invalid_token\"}", "null"} }
            \cup { HttpReply(403, ""), HttpReply(500, "down"), Unread(200), Unread(401),
                   NoResponse1 }

        NavigatorFailures ==
            { HttpReply(status, text) :
                status \in {400, 401, 403, 404, 500},
                text \in {"", "{\"error\":\"not_found\"}", "Navigator API is disabled",
                          "The API is not available"} }
            \cup { Unread(200), Unread(404), NoResponse1 }

        \* A list with one agreement whose summary has 201 characters.
        LongSummary ==
            [kind |-> "http", status |-> 200,
             text |-> Chars("{\"data\":[{\"id\":\"a4\",\"title\":\"NDA two\",\"summary\":\"")
                      \o [i \in 1..201 |-> 120] \o Chars("\"}]}")]

        Lists ==
            { HttpReply(200, text) :
                text \in {AgreementsBody, "null", "{}", "{\"data\":[]}", "{\"data\":\"abc\"}",
                          "{\"data\":[null]}", "{\"data\":[{\"parties\":5}]}",
                          "{\"data\":[{\"id\":\"a5\",\"type\":\"Nda\"},{\"id\":\"a6\"}]}",
                          "{\"data\":7}", "<html></html>"} }
            \cup {LongSummary}

        Agreements ==
            { HttpReply(200, text) :
                text \in {AgreementBody, "null", "{}", "\"a1\"", "{\"id\":\"a1\",\"parties\":\"ab\"}",
                          "{\"id\":\"a1\",\"parties\":[null]}", "{\"id\":7,\"summary\":7}",
                          "<html></html>"} }

        Call(tool, input, authInfo, userInfoRes, response) ==
            [tool |-> tool, input |-> input, authInfo |-> authInfo,
             userInfoRes |-> userInfoRes, response |-> response]

        \* The calls of a tool for its inputs and the replies of the Navigator API.
        CallsOf(tool, inputs, input, replies, reply) ==
            { Call(tool, input, authInfo, UserInfo, reply) : authInfo \in Contexts }
            \cup { Call(tool, input, AuthInfoOf(Chars("t1")), userInfoRes, reply) :
                     userInfoRes \in UserInfoFailures }
            \cup { Call(tool, i, AuthInfoOf(Chars("t1")), UserInfo, r) :
                     i \in inputs, r \in replies }
            \cup { Call(tool, input, AuthInfoOf(Chars("t1")), UserInfo, r) :
                     r \in NavigatorFailures }

        Ids == {NULL, <<>>, Chars("a1")}

        Queries == {NULL, <<>>, Chars(" "), Chars("NDA"), Chars("nda "), Chars(" Nda"),
                    Chars("lease  nda"), Chars("zzz"), Chars("globex acme"), Chars("x")}
    IN
    { Call("auth_status", NULL, authInfo, userInfoRes, NoResponse1) :
        authInfo \in Contexts, userInfoRes \in UserInfoFailures \cup {UserInfo} }
    \cup CallsOf("get_agreements", {NULL}, NULL, Lists, HttpReply(200, AgreementsBody))
    \cup CallsOf("get_agreement_by_id", Ids, Chars("a1"), Agreements,
                 HttpReply(200, AgreementBody))
    \cup CallsOf("search", Queries, Chars("NDA"), Lists, HttpReply(200, AgreementsBody))
    \cup CallsOf("fetch", Ids, Chars("a1"), Agreements, HttpReply(200, AgreementBody))

\* The MCPClientInfo values given to the codec.
RelayStates ==
    { MCPClientInfo([BaseQuery EXCEPT !.client_id = cid, !.redirect_uri = uri,
                                      !.state = st, !.resource = rs], ts) :
        cid \in {Chars("c1"), <<99, 233>>},
        uri \in {Chars("https://c.io/cb"), Chars("http://localhost:3000/cb?a=1")},
        st \in {NULL, Chars("s1"), Chars("a\"b\\c"), <<115, 32, 233>>, <<10003>>},
        rs \in {NULL, Chars("https://r.io/mcp")},
        ts \in {0, StartMs} }

\* The strings given to the decoder that the encoder did not produce.
RawStates == ForgedStates \ {NULL}

(***************************************************************************)
(* The specifications                                                      *)
(***************************************************************************)

\* The relay: an authorization, the upstream's redirect and the callback, or
\* a callback of somebody's own making, as time passes.
Next ==
    \/ Tick
    \/ \E params \in FlowQueries : Authorize(params)
    \/ UpstreamRedirect
    \/ \E params \in ForgedCallbacks : ForgedCallback(params)
    \/ Callback

Spec == Init /\ [][Next]_vars

\* GET /authorize on its own.
NextAuthorize == \E params \in AuthQueries : Authorize(params)

SpecAuthorize == Init /\ [][NextAuthorize]_vars

\* The redirect-URI validation on its own.
NextRedirectUri == \E redirectUri \in RedirectUris : ValidateUri(redirectUri)

SpecRedirectUri == Init /\ [][NextRedirectUri]_vars

\* The state codec on its own.
NextCodec ==
    \/ \E mcpClientInfo \in RelayStates : Encode(mcpClientInfo)
    \/ \E text \in RawStates : Supply(text)
    \/ Decode

SpecCodec == Init /\ [][NextCodec]_vars

\* Registrations, and an authorization request before, between or after
\* them, of a client_id that a registration gives or of another.
NextRegister ==
    LET
        Registrations ==
            { <<Chars("application/json"), Chars(body)>> :
                body \in {"{}", "null", "{\"scope\":",
                          "{\"scope\":\"\",\"redirect_uris\":[],\"grant_types\":null}",
                          "{\"redirect_uris\":[\"https://c.io/cb\"],\"scope\":\"signature\","
                              \o "\"grant_types\":[\"authorization_code\"],"
                              \o "\"response_types\":[\"code\",\"token\"],"
                              \o "\"client_name\":\"n\",\"contacts\":[\"a@c.io\"]}"} }
            \cup { <<NULL, Chars("{}")>>, <<Chars("Application/JSON"), Chars("{}")>>,
                   <<Chars("application/json; charset=utf-8"), Chars("5")>> }

        ClientIds == {Chars("c1"), Chars("mcp_") \o randomUUID(1)}
    IN
    \/ \E request \in Registrations : Register(request[1], request[2])
    \/ \E clientId \in ClientIds : Authorize([BaseQuery EXCEPT !.client_id = clientId])

SpecRegister == Init /\ [][NextRegister]_vars

(***************************************************************************)
(* The /mcp endpoint (src/unnamed/part_004, 255-321)                       *)
(***************************************************************************)

\* The requests that validateDocuSignToken(accessToken) sends to the
\* user-info endpoint: one, with the token as the bearer, unless the token is
\* missing.
UserInfoRequests(accessToken) ==
    IF Falsy(accessToken) THEN <<>>
    ELSE << [url |-> Chars("/oauth/userinfo"),
             authorization |-> Chars("Bearer ") \o accessToken] >>

\* What the user-info endpoint answers to a request with the bearer token
\* accessToken: the user information while the upstream accepts the token, and
\* a 401 from then on.
UserInfoEndpoint(accessToken) ==
    IF accessToken \in accepted
    THEN HttpReply(200, "{\"name\":\"Ann\",\"accounts\":[{\"account_id\":\"acc-1\"}]}")
    ELSE HttpReply(401, "{\"error\":\"invalid_token\"}")

\* withMcpAuth(handler, createTokenVerifier(), { required: true,
\* requiredScopes: ['signature'] }) of the mcp-handler package, given the
\* AuthInfo of the verifier: the status of the refusal, or 200 when the
\* request goes on to the handler of the MCP server.
withMcpAuth(authInfo) ==
    IF authInfo = NoAuthInfo THEN 401
    ELSE IF \E i \in 1..Len(authInfo.scopes) : authInfo.scopes[i] = Chars("signature")
    THEN 200
    ELSE 403

\* A request to /mcp that calls tool, with the bearer token of its
\* Authorization header (NULL without one): the verifier asks the user-info
\* endpoint, and the handler of the tool runs when the request is admitted.
McpRequest(bearerToken, tool) ==
    LET
        userInfoRes == UserInfoEndpoint(bearerToken)
        authInfo == createTokenVerifier(build, bearerToken, userInfoRes)
        status == withMcpAuth(authInfo)
        call == [tool |-> tool, input |-> NULL, authInfo |-> authInfo,
                 userInfoRes |-> userInfoRes, response |-> HttpReply(200, "{\"data\":[]}")]
    IN
    /\ Len(mcpLog) < MaxRequests
    /\ verIn' = [tool |-> "verify", token |-> bearerToken, reply |-> userInfoRes]
    /\ verOut' = authInfo
    /\ toolIn' = IF status = 200 THEN call ELSE NoCall
    /\ toolOut' = IF status # 200 THEN NoToolResponse
                  ELSE IF tool = "auth_status"
                  THEN authStatusHandler(build, authInfo, userInfoRes)
                  ELSE getAgreementsHandler(build, authInfo, userInfoRes, call.response)
    /\ mcpLog' = Append(mcpLog, [token |-> bearerToken, tool |-> tool,
                                 asked |-> UserInfoRequests(bearerToken),
                                 reply |-> userInfoRes,
                                 status |-> status, ran |-> status = 200])
    /\ UNCHANGED <<build, now, oauthVars, svcVars, corsVars, flowVars, accepted>>

\* A handler calls fetchAgreements(accessToken), and the upstream answers.
FetchAgreements(accessToken, userInfoRes, response) ==
    /\ svcIn = NoCall
    /\ svcIn' = [tool |-> "fetchAgreements", accessToken |-> accessToken, agreementId |-> NULL,
                 userInfoRes |-> userInfoRes, response |-> response]
    /\ svcOut' = fetchAgreements(build, accessToken, userInfoRes, response)
    /\ UNCHANGED <<build, now, oauthVars, corsVars, flowVars, verIn, verOut, accepted, mcpLog, toolIn, toolOut>>

\* A handler calls fetchAgreementById(accessToken, agreementId), and the
\* upstream answers.
FetchAgreementById(accessToken, agreementId, userInfoRes, response) ==
    /\ svcIn = NoCall
    /\ svcIn' = [tool |-> "fetchAgreementById", accessToken |-> accessToken,
                 agreementId |-> agreementId, userInfoRes |-> userInfoRes,
                 response |-> response]
    /\ svcOut' = fetchAgreementById(build, accessToken, agreementId, userInfoRes, response)
    /\ UNCHANGED <<build, now, oauthVars, corsVars, flowVars, verIn, verOut, accepted, mcpLog, toolIn, toolOut>>

\* The upstream stops accepting a token: it has expired, or was revoked.
Revoke(accessToken) ==
    /\ accessToken \in accepted
    /\ accepted' = accepted \ {accessToken}
    /\ UNCHANGED <<build, now, oauthVars, svcVars, corsVars, flowVars, verIn, verOut, mcpLog, toolIn, toolOut>>

\* The token verifier on its own.
NextVerifier ==
    \E bearerToken \in Tokens \cup {NULL, <<>>}, userInfoRes \in UserInfoReplies :
        Verify(bearerToken, userInfoRes)

SpecVerifier == Init /\ [][NextVerifier]_vars

\* The functions of the Docusign service on their own: one call of a run, with
\* every pair of a reply of the user-info endpoint (users with one account and
\* with several, of which the first, a later one or none is the default one;
\* failures) and a reply of the Navigator API.
NextService ==
    LET
        Account(id, flag) ==
            "{\"account_id\":\"" \o id \o "\",\"is_default\":" \o flag \o "}"

        UserInfos ==
            { HttpReply(200, text) :
                text \in {UserInfoBody,
                          "{\"name\":\"Bo\",\"accounts\":[" \o Account("acc-3", "true") \o "]}",
                          "{\"name\":\"Cy\",\"accounts\":[" \o Account("acc-4", "true") \o ","
                              \o Account("acc-5", "false") \o "]}",
                          "{\"name\":\"Di\",\"accounts\":[" \o Account("acc-6", "false") \o ","
                              \o Account("acc-7", "false") \o "]}",
                          "{\"name\":\"Ed\",\"accounts\":[]}"} }
            \cup { HttpReply(status, "down") : status \in {401, 500, 502, 503} }
            \cup { [kind |-> "aborted", status |-> 500, text |-> <<>>],
                   [kind |-> "rejected", status |-> 0, text |-> <<>>] }

        Replies ==
            { HttpReply(200, text) : text \in {AgreementsBody, AgreementBody, "<html></html>"} }
            \cup { HttpReply(status, text) :
                     status \in {401, 404, 500, 502, 503}, text \in {"", "Bad Gateway"} }
            \cup { [kind |-> "aborted", status |-> 200, text |-> <<>>],
                   [kind |-> "aborted", status |-> 500, text |-> <<>>],
                   [kind |-> "rejected", status |-> 0, text |-> <<>>] }
    IN
    \/ \E accessToken \in {NULL, Chars("t1")}, userInfoRes \in UserInfos, response \in Replies :
          FetchAgreements(accessToken, userInfoRes, response)
    \/ \E accessToken \in {NULL, Chars("t1")}, agreementId \in {<<>>, Chars("a1")},
          userInfoRes \in UserInfos, response \in Replies :
          FetchAgreementById(accessToken, agreementId, userInfoRes, response)

SpecService == Init /\ [][NextService]_vars

\* The /mcp endpoint on its own, with an upstream that stops accepting tokens.
NextMcp ==
    \/ \E bearerToken \in Tokens \cup {NULL, <<>>}, tool \in {"auth_status", "get_agreements"} :
          McpRequest(bearerToken, tool)
    \/ \E accessToken \in Tokens : Revoke(accessToken)

SpecMcp == Init /\ [][NextMcp]_vars

\* The tool handlers on their own: one call of a run, of any tool.
InitTools == \E call \in ToolCalls : Start(call)

NextTools == AuthStatus \/ GetAgreements \/ GetAgreementById \/ Search \/ Fetch

SpecTools == InitTools /\ [][NextTools]_vars

\* POST /token on its own.
NextToken == \E body \in TokenBodies, reply \in UpstreamReplies : Token(body, reply)

SpecToken == Init /\ [][NextToken]_vars

(***************************************************************************)
(* The headers of the answers with a JSON body                             *)
(***************************************************************************)

\* A header of a response.
Header(name, value) == [k |-> Chars(name), v |-> value]

\* createCorsHeaders(request), from the request's Origin header (null when the
\* request has none).
createCorsHeaders(origin) ==
    <<Header("Access-Control-Allow-Origin", OrElse(origin, Chars("*"))),
      Header("Access-Control-Allow-Methods", Chars("GET, POST, PUT, DELETE, OPTIONS")),
      Header("Access-Control-Allow-Headers", Chars("Content-Type, Authorization, Accept, Accept-Language, Cache-Control, Connection, Origin, Pragma, Referer, Sec-Fetch-Dest, Sec-Fetch-Mode, Sec-Fetch-Site, User-Agent, sec-ch-ua, sec-ch-ua-mobile, sec-ch-ua-platform, MCP-Protocol-Version")),
      Header("Access-Control-Allow-Credentials", Chars("false")),
      Header("Access-Control-Max-Age", Chars("86400"))>>

OAUTH_HEADERS ==
    <<Header("Content-Type", Chars("application/json")),
      Header("Cache-Control", Chars("no-store")),
      Header("Pragma", Chars("no-cache"))>>

\* The headers that an endpoint gives to its answer with a JSON body, by the
\* kind of the answer. The two variants of an endpoint write the same headers:
\* the current one takes them from OAUTH_HEADERS and the superseded one spells
\* them out.
JsonHeaders(variant, endpoint, kind, origin) ==
    CASE endpoint \in {"authorize", "callback"} ->
            \* createOAuthErrorResponse, and the literal headers of the superseded
            \* handlers
            OAUTH_HEADERS
      [] endpoint = "token" ->
            \* the headers of the answer, then those of createCorsHeaders
            ParamsSetAll(OAUTH_HEADERS, createCorsHeaders(origin))
      [] endpoint = "register" /\ kind = "registered" ->
            \* createJsonResponse
            ParamsSetAll(<<Header("Content-Type", Chars("application/json"))>>,
                         createCorsHeaders(origin))
      [] endpoint = "register" ->
            <<Header("Content-Type", Chars("application/json")),
              Header("Access-Control-Allow-Origin", OrElse(origin, Chars("*")))>>
      [] endpoint = "discovery" /\ kind = "openapi" ->
            <<Header("Content-Type", Chars("application/json")),
              Header("Cache-Control", Chars("public, max-age=3600"))>>
      [] OTHER ->
            \* createJsonResponse
            ParamsSetAll(<<Header("Content-Type", Chars("application/json"))>>,
                         createCorsHeaders(origin))

\* An endpoint answers a request with a JSON body.
JsonResponse(endpoint, kind, origin) ==
    /\ corsIn = NoCall
    /\ corsIn' = [tool |-> "json", endpoint |-> endpoint, kind |-> kind, origin |-> origin]
    /\ corsOut' = JsonHeaders(build, endpoint, kind, origin)
    /\ UNCHANGED <<build, now, oauthVars, svcVars, flowVars, verIn, verOut, accepted, mcpLog, toolIn,
                   toolOut>>

\* The answers with a JSON body of each endpoint.
JsonAnswers ==
    ({"authorize"} \X {"invalid_request", "unsupported_response_type", "server_error"})
    \cup ({"callback"} \X {"upstream_error", "invalid_request", "expired_state", "server_error"})
    \cup ({"token"} \X {"unsupported_grant_type", "upstream_payload", "server_error"})
    \cup ({"register"} \X {"registered", "invalid_content_type", "invalid_json"})
    \cup ({"discovery"} \X {"mcp.json", "oauth-authorization-server", "oauth-protected-resource",
                            "openapi"})

\* The Origin header of a request: absent, empty, or an origin.
Origins == {NULL, <<>>, Chars("https://chat.openai.com"), Chars("http://localhost:3000")}

NextCors == \E answer \in JsonAnswers, origin \in Origins : JsonResponse(answer[1], answer[2], origin)

SpecCors == Init /\ [][NextCors]_vars

(***************************************************************************)
(* Two authorization flows at once                                         *)
(***************************************************************************)

\* The requests that the flows may make in a run.
MaxFlowRequests == 3

Flows == {"A", "B"}

\* What the caller of a flow sends, and the code that the upstream issues to it.
FlowCaller(flow) ==
    IF flow = "A"
    THEN [client_id |-> Chars("client-a"), redirect_uri |-> Chars("https://a.example/cb"),
          state |-> Chars("state-a"), code |-> Chars("code-a"), verifier |-> Chars("v-a"),
          token |-> Chars("at-a")]
    ELSE [client_id |-> Chars("client-b"), redirect_uri |-> Chars("http://localhost:3000/cb"),
          state |-> Chars("state-b"), code |-> Chars("code-b"), verifier |-> Chars("v-b"),
          token |-> Chars("at-b")]

\* A request of a flow is handled: the log keeps what the handler was given
\* (the request, the time, the upstream's reply, the UUIDs drawn before) and
\* what it answered.
Handled(flow, endpoint, request, reply, response) ==
    /\ Len(flowLog) < MaxFlowRequests
    /\ flowLog' = Append(flowLog, [flow |-> flow, endpoint |-> endpoint, request |-> request,
                                   at |-> now, reply |-> reply, drawn |-> uuidCount,
                                   response |-> response])

\* The caller of a flow sends GET /authorize.
FlowAuthorize(flow) ==
    LET
        AuthorizeOf(b, params, dateNow) ==
            IF b = "current" THEN AuthorizeGET(params, dateNow)
            ELSE AuthorizeGETLegacy(params, dateNow)

        Query(caller) ==
            [BaseQuery EXCEPT !.client_id = caller.client_id,
                              !.redirect_uri = caller.redirect_uri, !.state = caller.state]

        Answered(query) ==
            Handled(flow, "authorize", query, NoReply, AuthorizeOf(build, query, now))
    IN
    /\ Answered(Query(FlowCaller(flow)))
    /\ UNCHANGED <<build, now, oauthVars, svcVars, corsVars, verIn, verOut, accepted, mcpLog,
                   toolIn, toolOut>>

\* A callback handler that consumes the relay state: a state that an earlier
\* callback was redirected for is refused.
FlowCallbackConsuming(flow) ==
    LET
        CallbackOf(b, params, dateNow) ==
            IF b = "current" THEN CallbackGET(params, dateNow)
            ELSE CallbackGETLegacy(params, dateNow)

        RelayedState(location) == ParamsGet(SearchParams(ParseURL(location)), Chars("state"))

        Consumed(state) ==
            \E i \in 1..Len(flowLog) :
                /\ flowLog[i].endpoint = "callback"
                /\ flowLog[i].request.state = state
                /\ flowLog[i].response.status = 302

        Answered(params) ==
            Handled(flow, "callback", params, NoReply,
                    IF Consumed(params.state)
                    THEN createOAuthErrorResponse(Chars("invalid_request"),
                                                  Chars("Invalid state parameter"), 400, NULL)
                    ELSE CallbackOf(build, params, now))
    IN
    /\ \E i \in 1..Len(flowLog) :
           /\ flowLog[i].flow = flow
           /\ flowLog[i].endpoint = "authorize"
           /\ flowLog[i].response.status = 302
           /\ Answered([code |-> FlowCaller(flow).code,
                        state |-> RelayedState(flowLog[i].response.location),
                        error |-> NULL, error_description |-> NULL])
    /\ UNCHANGED <<build, now, oauthVars, svcVars, corsVars, verIn, verOut, accepted, mcpLog,
                   toolIn, toolOut>>

\* A callback handler that keeps the pending relay state in memory: it
\* answers for the state of the authorization that was redirected last, whatever
\* state the request carries.
FlowCallbackOfPending(flow) ==
    LET
        CallbackOf(b, params, dateNow) ==
            IF b = "current" THEN CallbackGET(params, dateNow)
            ELSE CallbackGETLegacy(params, dateNow)

        RelayedState(location) == ParamsGet(SearchParams(ParseURL(location)), Chars("state"))

        Redirected == {i \in 1..Len(flowLog) : /\ flowLog[i].endpoint = "authorize"
                                                /\ flowLog[i].response.status = 302}

        Last(indices) == CHOOSE i \in indices : \A j \in indices : j <= i

        Pending == RelayedState(flowLog[Last(Redirected)].response.location)

        Answered(params) ==
            Handled(flow, "callback", params, NoReply,
                    CallbackOf(build, [params EXCEPT !.state = Pending], now))
    IN
    /\ \E i \in 1..Len(flowLog) :
           /\ flowLog[i].flow = flow
           /\ flowLog[i].endpoint = "authorize"
           /\ flowLog[i].response.status = 302
           /\ Answered([code |-> FlowCaller(flow).code,
                        state |-> RelayedState(flowLog[i].response.location),
                        error |-> NULL, error_description |-> NULL])
    /\ UNCHANGED <<build, now, oauthVars, svcVars, corsVars, verIn, verOut, accepted, mcpLog,
                   toolIn, toolOut>>

\* The upstream redirects the user of a flow to GET /auth/callback, with the
\* code of the flow and the state of one of the flow's authorization URLs. The
\* user may come back more than once with the same URL.
FlowCallback(flow) ==
    LET
        CallbackOf(b, params, dateNow) ==
            IF b = "current" THEN CallbackGET(params, dateNow)
            ELSE CallbackGETLegacy(params, dateNow)

        RelayedState(location) == ParamsGet(SearchParams(ParseURL(location)), Chars("state"))

        Answered(params) ==
            Handled(flow, "callback", params, NoReply, CallbackOf(build, params, now))
    IN
    /\ \E i \in 1..Len(flowLog) :
           /\ flowLog[i].flow = flow
           /\ flowLog[i].endpoint = "authorize"
           /\ flowLog[i].response.status = 302
           /\ Answered([code |-> FlowCaller(flow).code,
                        state |-> RelayedState(flowLog[i].response.location),
                        error |-> NULL, error_description |-> NULL])
    /\ UNCHANGED <<build, now, oauthVars, svcVars, corsVars, verIn, verOut, accepted, mcpLog,
                   toolIn, toolOut>>

\* The caller of a flow that has received its code sends POST /token, and the
\* upstream grants the token of the flow.
FlowToken(flow) ==
    LET
        TokenOf(b, body, reply) ==
            IF b = "current" THEN TokenPOST(body, reply) ELSE TokenPOSTLegacy(body, reply)

        Body(caller) ==
            Chars("grant_type=authorization_code&code=") \o caller.code
                \o Chars("&code_verifier=") \o caller.verifier

        Grant(caller) ==
            [kind |-> "json", status |-> 200,
             data |-> JObj(<< [k |-> Chars("access_token"), v |-> JStr(caller.token)],
                              [k |-> Chars("token_type"), v |-> JStr(Chars("Bearer"))] >>)]

        Answered(body, reply) ==
            Handled(flow, "token", body, reply, TokenOf(build, body, reply).response)
    IN
    /\ \E i \in 1..Len(flowLog) :
           /\ flowLog[i].flow = flow
           /\ flowLog[i].endpoint = "callback"
           /\ flowLog[i].response.status = 302
    /\ Answered(Body(FlowCaller(flow)), Grant(FlowCaller(flow)))
    /\ UNCHANGED <<build, now, oauthVars, svcVars, corsVars, verIn, verOut, accepted, mcpLog,
                   toolIn, toolOut>>

\* The caller of a flow sends POST /register, before its other requests.
FlowRegister(flow) ==
    LET
        Body(caller) ==
            Chars("{\"redirect_uris\":[\"") \o caller.redirect_uri \o Chars("\"]}")

        Answered(body, response) ==
            /\ Handled(flow, "register", body, NoReply, response)
            /\ uuidCount' = IF response.status = 200 THEN uuidCount + 2 ELSE uuidCount
    IN
    /\ \A i \in 1..Len(flowLog) : flowLog[i].flow # flow
    /\ Answered(Body(FlowCaller(flow)),
                RegisterPOST(Chars("application/json"), Body(FlowCaller(flow)), uuidCount, now))
    /\ UNCHANGED <<build, now, authVars, cbVars, tokVars, uriVars, codecVars, regLog, svcVars,
                   corsVars, verIn, verOut, accepted, mcpLog, toolIn, toolOut>>

NextFlows ==
    \/ Tick
    \/ \E flow \in Flows : FlowAuthorize(flow)
    \/ \E flow \in Flows : FlowCallback(flow)
    \/ \E flow \in Flows : FlowToken(flow)
    \/ \E flow \in Flows : FlowRegister(flow)

SpecFlows == Init /\ [][NextFlows]_vars

(***************************************************************************)
(* The properties                                                          *)
(***************************************************************************)

\* The value of the query parameter name in a URL given as a string, or NULL.
LocationParam(location, name) == ParamsGet(SearchParams(ParseURL(location)), Chars(name))

\* The URL location is the URL uri, but for the query parameters answer that a
\* handler sets on it: the same scheme, userinfo, host, port, path and
\* fragment, and the same other query parameters in the same order.
SameTarget(location, uri, answer) ==
    LET a == ParseURL(location)
        b == ParseURL(uri)
        Others(url) == SelectSeq(SearchParams(url), LAMBDA p : p.k \notin answer)
    IN  /\ a.ok /\ b.ok
        /\ <<a.scheme, a.userinfo, a.host, a.port, a.path, a.fragment>>
           = <<b.scheme, b.userinfo, b.host, b.port, b.path, b.fragment>>
        /\ Others(a) = Others(b)

\* The callback has answered the upstream's redirect of a granted
\* authorization, within the freshness window of the authorization.
Delivered ==
    /\ cbResp # NoResponse
    /\ cbOrigin = "upstream"
    /\ cbReq.error = NULL
    /\ cbAt - authAt <= StateExpirationMs

\* C1, as stated: a granted authorization that returns within the window
\* ends in a 302 to the caller's redirect_uri that carries the upstream's code
\* and the caller's state, and the state parameter is absent exactly when the
\* caller supplied none.
C1_StateAbsentIffNoneSupplied ==
    Delivered =>
        /\ cbResp.status = 302
        /\ SameTarget(cbResp.location, authReq.redirect_uri, {Chars("code"), Chars("state")})
        /\ LocationParam(cbResp.location, "code") = cbReq.code
        /\ LocationParam(cbResp.location, "state")
           = IF Falsy(authReq.state) THEN NULL ELSE authReq.state

\* C1, amended: a granted authorization that returns within the window ends
\* in a 302 to the caller's redirect_uri that carries the upstream's code; its
\* state parameter is the caller's state when the caller supplied a non-empty
\* one, and otherwise no state parameter is set: the redirect_uri keeps the
\* state parameter of its own query, if it has one.
C1_RelayedCodeAndState ==
    Delivered =>
        /\ cbResp.status = 302
        /\ SameTarget(cbResp.location, authReq.redirect_uri, {Chars("code"), Chars("state")})
        /\ LocationParam(cbResp.location, "code") = cbReq.code
        /\ LocationParam(cbResp.location, "state")
           = IF ~Falsy(authReq.state) THEN authReq.state
             ELSE LocationParam(authReq.redirect_uri, "state")

\* A relay that ends exactly at the end of the window, with the caller's state.
C1_Witness ==
    /\ Delivered
    /\ cbAt - authAt = StateExpirationMs
    /\ authReq.state = <<115, 32, 233, 38, 61>>
    /\ cbReq.code = Chars("a/b+c=&d")
    /\ cbResp.status = 302
    /\ LocationParam(cbResp.location, "state") = authReq.state

\* C2, as stated: every authorization request that passes validation is
\* answered with a 302 whose Location carries the request's code_challenge and
\* code_challenge_method.
C2_PkceForwarded ==
    (authResp # NoResponse /\ authErr = NoError) =>
        /\ authResp.status = 302
        /\ LocationParam(authResp.location, "code_challenge") = authReq.code_challenge
        /\ LocationParam(authResp.location, "code_challenge_method")
           = authReq.code_challenge_method

\* The error the checks give in the order the claim states: response_type,
\* client_id, redirect_uri present, redirect_uri allowed, code_challenge,
\* code_challenge_method, scope, resource.
ClaimedFirstError(authRequest) ==
    LET Rule(i) ==
            LET rule == VALIDATION_RULES[i]
                value == authRequest[rule.param]
            IN  IF Falsy(value) \/ (rule.allowedValues # {} /\ value \notin rule.allowedValues)
                THEN AuthError(rule.error, rule.description)
                ELSE NoError
    IN  OrError(Rule(1),
        OrError(Rule(2),
        OrError(Rule(3),
        OrError(validateRedirectUri(authRequest.redirect_uri),
        OrError(Rule(4),
        OrError(Rule(5),
        OrError(IF ~Falsy(authRequest.scope) THEN validateScope(authRequest.scope)
                ELSE NoError,
                IF ~Falsy(authRequest.resource) THEN validateResource(authRequest.resource)
                ELSE NoError)))))))

\* C3, as stated: validateAuthorizationRequest reports the first failing
\* check in the order response_type, client_id, redirect_uri (present and
\* allowed), code_challenge, code_challenge_method, scope, resource.
C3_FirstFailingCheck ==
    authResp # NoResponse => authErr = ClaimedFirstError(ExtractAuthRequest(authReq))

\* The redirect-URI rule as the claim states it: the string parses as a URL,
\* its scheme is in the allow-list and not in the deny-list, and an http URL
\* has the host localhost, 127.0.0.1 or ::1 (an IPv6 host is written in
\* brackets in a URL).
ClaimedAccepts(redirectUri) ==
    LET url == ParseURL(redirectUri)
        scheme == url.scheme
        host == IF Len(url.host) >= 2 /\ url.host[1] = 91
                THEN SubSeq(url.host, 2, Len(url.host) - 1) ELSE url.host
    IN  /\ url.ok
        /\ scheme \in {Chars("https"), Chars("http"), Chars("vscode"), Chars("ms-vscode"),
                       Chars("chrome-extension"), Chars("moz-extension")}
        /\ scheme \notin {Chars("javascript"), Chars("data"), Chars("vbscript"), Chars("file")}
        /\ scheme = Chars("http")
           => host \in {Chars("localhost"), Chars("127.0.0.1"), Chars("::1")}

\* C4, as stated: the redirect-URI validation accepts a string exactly when
\* it parses as a URL, its scheme is allowed and not dangerous, and an http
\* URL has the host localhost, 127.0.0.1 or ::1.
C4_AcceptsExactlyAllowed ==
    uriIn # NULL => (uriOut <=> ClaimedAccepts(uriIn))

\* C5, as stated: a request that fails validation is answered with a 302 to
\* its redirect_uri carrying the error exactly when the redirect_uri is valid
\* and the error is neither invalid_request nor unauthorized_client, and with
\* a 400 JSON error otherwise.
C5_RedirectsIffValidTarget ==
    (authResp # NoResponse /\ authErr # NoError) =>
        IF /\ ClaimedAccepts(ExtractAuthRequest(authReq).redirect_uri)
           /\ authErr.error \notin {Chars("invalid_request"), Chars("unauthorized_client")}
        THEN /\ authResp.status = 302
             /\ SameTarget(authResp.location, authReq.redirect_uri,
                           {Chars("error"), Chars("error_description"), Chars("error_uri"),
                            Chars("state")})
             /\ LocationParam(authResp.location, "error") = authErr.error
        ELSE /\ authResp.status = 400
             /\ authResp.location = NULL
             /\ authResp.error = authErr.error

\* C6, as stated: decoding what encodeStateParameter made of an MCPClientInfo
\* gives that MCPClientInfo back (encoding does not fail), and decoding any
\* other string gives an MCPClientInfo object or null.
C6_RoundTripOrNull ==
    /\ codecIn # <<>> => ~codecThrew
    /\ (codecIn # <<>> /\ codecOut # JUndefined)
       => codecOut = JObj(SelectSeq(codecIn, LAMBDA p : p.v # JUndefined))
    /\ (codecIn = <<>> /\ codecOut # JUndefined)
       => (codecOut = JNull \/ codecOut.t = "obj")

\* C7, as stated: a callback without an error parameter is answered with the
\* success 302 when code and state are present, the state decodes and its
\* timestamp is at most the window old, and otherwise with a 400
\* invalid_request JSON error and no redirect, whose description is 'State
\* parameter has expired' when the timestamp is older than the window.
C7_SuccessOrInvalidRequest ==
    (cbResp # NoResponse /\ cbReq.error = NULL) =>
        LET info == IF Falsy(cbReq.state) THEN JNull ELSE decodeStateParameter(cbReq.state)
            stamp == ToNumber(GetProp(info, Chars("timestamp")))
        IN  IF Falsy(cbReq.code) \/ info = JNull
            THEN /\ cbResp.status = 400
                 /\ cbResp.error = Chars("invalid_request")
                 /\ cbResp.location = NULL
            ELSE IF ~stamp.nan /\ cbAt - stamp.n <= StateExpirationMs
            THEN /\ cbResp.status = 302
                 /\ LocationParam(cbResp.location, "code") = cbReq.code
            ELSE /\ cbResp.status = 400
                 /\ cbResp.error = Chars("invalid_request")
                 /\ cbResp.location = NULL
                 /\ ~stamp.nan => cbResp.error_description = Chars("State parameter has expired")

\* C8, as stated: a callback with an error parameter is answered with a 302
\* to the decoded redirect_uri carrying the error, its description and the
\* original state when the state is present and decodes, and with a 400 JSON
\* error carrying that error otherwise; nothing else happens.
C8_ErrorRelayedOrJson ==
    (cbResp # NoResponse /\ cbReq.error # NULL) =>
        LET info == IF Falsy(cbReq.state) THEN JNull ELSE decodeStateParameter(cbReq.state)
        IN  IF info # JNull
            THEN /\ cbResp.status = 302
                 /\ SameTarget(cbResp.location, ToStringJS(GetProp(info, Chars("redirect_uri"))),
                               {Chars("error"), Chars("error_description"), Chars("state")})
                 /\ LocationParam(cbResp.location, "error") = cbReq.error
                 /\ LocationParam(cbResp.location, "error_description")
                    = cbReq.error_description
            ELSE /\ cbResp.status = 400
                 /\ cbResp.location = NULL
                 /\ cbResp.error = cbReq.error

\* C9: POST /token sends a request upstream exactly when the grant_type of
\* the body is authorization_code or refresh_token; for any other grant_type,
\* or none, it answers 400 unsupported_grant_type and sends nothing upstream.
C9_OnlyTwoGrantTypes ==
    tokResp # NoResponse =>
        IF ParamsGet(ParseQuery(tokReq), Chars("grant_type"))
               \in {Chars("authorization_code"), Chars("refresh_token")}
        THEN /\ tokUpstream # NoUpstreamRequest
             /\ tokResp.error # Chars("unsupported_grant_type")
        ELSE /\ tokResp.status = 400
             /\ tokResp.error = Chars("unsupported_grant_type")
             /\ tokUpstream = NoUpstreamRequest

\* A password grant was refused, and nothing went upstream.
C9_Witness ==
    /\ tokResp # NoResponse
    /\ ParamsGet(ParseQuery(tokReq), Chars("grant_type")) = Chars("password")
    /\ ParamsGet(ParseQuery(tokReq), Chars("code")) = Chars("c1")
    /\ tokResp.status = 400
    /\ tokResp.error = Chars("unsupported_grant_type")
    /\ tokUpstream = NoUpstreamRequest

\* C10, as stated: whatever the upstream token endpoint replies to a relayed
\* grant, the status of the POST /token response is the status of that reply.
C10_StatusForwarded ==
    tokReply.kind \in {"json", "notjson"} => tokResp.status = tokReply.status

\* C11: when the payload of the upstream token endpoint is an object with an
\* access_token (a non-empty one), the scope of the POST /token response is
\* the canonical scope string, whatever scope the payload carried, or none.
C11_ScopeIsCanonical ==
    (/\ tokReply.kind = "json"
     /\ tokReply.data.t = "obj"
     /\ ~JFalsy(GetProp(tokReply.data, Chars("access_token"))))
    => /\ tokResp.data.t = "obj"
       /\ GetProp(tokResp.data, Chars("scope")) = JStr(DefaultScope)
       /\ GetProp(tokResp.data, Chars("access_token"))
          = GetProp(tokReply.data, Chars("access_token"))

\* A grant whose payload carried another scope was answered.
C11_Witness ==
    /\ tokReply.kind = "json"
    /\ tokReply.data.t = "obj"
    /\ GetProp(tokReply.data, Chars("access_token")) = JStr(Chars("at"))
    /\ GetProp(tokReply.data, Chars("scope")) = JStr(DefaultScope \o Chars(" extended"))
    /\ GetProp(tokResp.data, Chars("scope")) = JStr(DefaultScope)

\* C12: the request POST /token sends upstream carries, for
\* authorization_code, exactly grant_type, the caller's code, the proxy's own
\* redirect_uri and the caller's code_verifier, and for refresh_token exactly
\* grant_type and the caller's refresh_token; its Authorization header is
\* HTTP Basic of the proxy's own credentials; a redirect_uri, client_id or
\* client_secret of the caller's is never in it.
C12_UpstreamRequestIsOwn ==
    tokUpstream # NoUpstreamRequest =>
        LET params == ParseQuery(tokReq)
            grantType == ParamsGet(params, Chars("grant_type"))
            sent == ParseQuery(tokUpstream.body)
            Theirs(name) == OrElse(ParamsGet(params, Chars(name)), <<>>)
            basic == tokUpstream.authorization
        IN  /\ grantType \in {Chars("authorization_code"), Chars("refresh_token")}
            /\ grantType = Chars("authorization_code")
               => sent = << [k |-> Chars("grant_type"), v |-> Chars("authorization_code")],
                            [k |-> Chars("code"), v |-> Theirs("code")],
                            [k |-> Chars("redirect_uri"), v |-> DocusignRedirectUri],
                            [k |-> Chars("code_verifier"), v |-> Theirs("code_verifier")] >>
            /\ grantType = Chars("refresh_token")
               => sent = << [k |-> Chars("grant_type"), v |-> Chars("refresh_token")],
                            [k |-> Chars("refresh_token"), v |-> Theirs("refresh_token")] >>
            /\ StartsWith(basic, Chars("Basic "))
            /\ atob(SubSeq(basic, 7, Len(basic)))
               = [ok |-> TRUE, v |-> DocusignClientId \o Chars(":") \o DocusignClientSecret]
            /\ \A i \in 1..Len(sent) :
                   /\ sent[i].k \notin {Chars("client_id"), Chars("client_secret")}
                   /\ sent[i].v \notin {Chars("https://evil.example/cb"), Chars("their-id"),
                                        Chars("their-secret")}

\* A code grant whose body carried a redirect_uri, a client_id and a
\* client_secret of the caller's went upstream.
C12_Witness ==
    /\ tokUpstream # NoUpstreamRequest
    /\ ParamsGet(ParseQuery(tokReq), Chars("redirect_uri")) = Chars("https://evil.example/cb")
    /\ ParamsGet(ParseQuery(tokReq), Chars("client_secret")) = Chars("their-secret")
    /\ ParamsGet(ParseQuery(tokReq), Chars("code")) = Chars("a/b+c=&d")
    /\ ParamsGet(ParseQuery(tokUpstream.body), Chars("code")) = Chars("a/b+c=&d")
    /\ ParamsGet(ParseQuery(tokUpstream.body), Chars("redirect_uri")) = DocusignRedirectUri

\* C13: every successful POST /register returns a client_id and a
\* client_secret that no other registration returned, with
\* client_secret_expires_at = 0 and the time of issue; redirect_uris,
\* grant_types, response_types and scope are those of the request body when
\* it supplies them (a value that is not null, empty or false) and the fixed
\* defaults otherwise; and an authorization request is answered the same
\* whether or not a registration gave its client_id.
C13_FreshCredentialsNoLink ==
    LET Field(data, name) == GetProp(data, Chars(name))
        Defaults ==
            << <<"redirect_uris", JArrOf(<<JStr(Chars("https://mcp.example/auth/callback"))>>)>>,
               <<"grant_types", JArrOf(<<JStr(Chars("authorization_code")),
                                       JStr(Chars("refresh_token"))>>)>>,
               <<"response_types", JArrOf(<<JStr(Chars("code"))>>)>>,
               <<"scope", JStr(Chars("signature impersonation adm_store_unified_repo_read "
                                     \o "models_read"))>> >>
        Good(i) == regLog[i].response.status = 200
        Answer(i) == regLog[i].response.data
        Asked(i) == JSONparse(regLog[i].body).val
    IN  /\ \A i \in 1..Len(regLog) :
               Good(i) =>
                   /\ StartsWith(Field(Answer(i), "client_id").s, Chars("mcp_"))
                   /\ StartsWith(Field(Answer(i), "client_secret").s, Chars("secret_"))
                   /\ Len(Field(Answer(i), "client_id").s) = 40
                   /\ Field(Answer(i), "client_secret_expires_at") = JNum(0)
                   /\ Field(Answer(i), "client_id_issued_at") = JNum(regLog[i].at \div 1000)
                   /\ \A d \in 1..Len(Defaults) :
                          Field(Answer(i), Defaults[d][1])
                          = IF JFalsy(Field(Asked(i), Defaults[d][1])) THEN Defaults[d][2]
                            ELSE Field(Asked(i), Defaults[d][1])
                   /\ \A j \in 1..Len(regLog) :
                          (Good(j) /\ j # i) =>
                              /\ Field(Answer(i), "client_id") # Field(Answer(j), "client_id")
                              /\ Field(Answer(i), "client_secret")
                                 # Field(Answer(j), "client_secret")
                              /\ Field(Answer(i), "client_id").s
                                 # SubSeq(Field(Answer(j), "client_secret").s, 4, 43)
        /\ authResp # NoResponse =>
               /\ authErr = NoError
               /\ authResp.status = 302
               /\ StartsWith(authResp.location, DocusignBaseUrl \o AuthorizationEndpoint)

\* Two registrations with the same body were answered, the second with the
\* values of its body, and an authorization request of the client_id of the
\* first was answered after them.
C13_Witness ==
    /\ Len(regLog) = 2
    /\ regLog[1].body = regLog[2].body
    /\ regLog[1].response.status = 200 /\ regLog[2].response.status = 200
    /\ GetProp(regLog[2].response.data, Chars("redirect_uris"))
       = JArrOf(<<JStr(Chars("https://c.io/cb"))>>)
    /\ authResp.status = 302
    /\ uuidCount = 4
    /\ authReq.client_id = GetProp(regLog[1].response.data, Chars("client_id")).s

\* The token verifier has been called, and the upstream answered in the range
\* 200..299.
AnsweredOk == verIn # NoCall /\ verIn.reply.kind = "http" /\ verIn.reply.status \in 200..299

\* C14, as stated: the token verifier returns an AuthInfo exactly when a
\* bearer token is supplied and the user-info endpoint answers 2xx for it, and
\* undefined otherwise.
C14_ValidIffOk ==
    verIn # NoCall => (verOut # NoAuthInfo <=> (~Falsy(verIn.token) /\ AnsweredOk))

\* C14, amended: the token verifier returns an AuthInfo, which holds the token
\* and the parsed user information, exactly when a bearer token is supplied
\* and the user-info endpoint answers 2xx for it with a body that is JSON; on
\* a missing token, a non-2xx status, a 2xx answer whose body is no JSON and a
\* network failure it returns undefined.
C14_ValidIffOkJson ==
    verIn # NoCall =>
        /\ verOut # NoAuthInfo
           <=> (~Falsy(verIn.token) /\ AnsweredOk /\ JSONparse(verIn.reply.text).ok)
        /\ verOut # NoAuthInfo
           => /\ verOut.token = verIn.token
              /\ verOut.userInfo = JSONparse(verIn.reply.text).val

\* A token was verified against a 201 answer with the user information, in
\* the run of the current variant.
C14_Witness ==
    /\ verIn # NoCall
    /\ build = "current"
    /\ verIn.token = Chars("t2")
    /\ verIn.reply = HttpReply(201, UserInfoBody)
    /\ verOut # NoAuthInfo
    /\ GetProp(verOut.userInfo, Chars("email")) = JStr(Chars("a@c.io"))

\* The handler of tool has answered the pending call.
Answered(tool) == toolIn.tool = tool /\ toolOut # NoToolResponse

\* The context of the pending call holds an access token, and the user-info
\* endpoint answers with the user information.
SignedIn ==
    /\ toolIn.authInfo # NoAuthInfo
    /\ toolIn.authInfo.token \in {Chars("t1"), Chars(" t1 ")}
    /\ toolIn.userInfoRes = HttpReply(200, UserInfoBody)

\* The tool response is a content array with one text item.
WellFormed(toolResponse) ==
    /\ ~toolResponse.threw
    /\ Len(toolResponse.content) = 1
    /\ toolResponse.content[1].type = "text"
    /\ DOMAIN toolResponse.content[1].text = 1..Len(toolResponse.content[1].text)

\* The text of the tool response contains words.
Says(words) == Includes(toolOut.content[1].text, Chars(words))

\* C16: whatever the input, the context and the replies of the upstream, each
\* of the five tool handlers returns a tool response with a content array of
\* one text item, and throws nothing.
C16_AlwaysWellFormed ==
    toolOut # NoToolResponse => WellFormed(toolOut)

\* The handler of get_agreement_by_id was called without an authInfo, and
\* answered; so did, in other runs, the four other handlers when the fetch of
\* the upstream was rejected or the body was no JSON.
C16_Witness ==
    /\ Answered("get_agreement_by_id")
    /\ toolIn.authInfo = NoAuthInfo
    /\ build = "current"
    /\ WellFormed(toolOut)
    /\ Says("Access token is required but not provided in context")

\* The agreements that the upstream lists for the pending call of search: the
\* call is made with an access token and a query, and the Navigator API
\* answers 200 with a list of agreement objects.
Listed ==
    LET
        list == GetProp(JSONparse(toolIn.response.text).val, Chars("data"))
    IN
    IF /\ SignedIn /\ toolIn.input # NULL
       /\ toolIn.response.kind = "http" /\ toolIn.response.status = 200
       /\ JSONparse(toolIn.response.text).ok
       /\ list.t = "arr" /\ \A i \in 1..Len(list.m) : list.m[i].v.t = "obj"
    THEN [ok |-> TRUE, agreements |-> [i \in 1..Len(list.m) |-> list.m[i].v]]
    ELSE [ok |-> FALSE, agreements |-> <<>>]

\* The result entries of the response of search.
Results ==
    LET
        results == GetProp(JSONparse(toolOut.content[1].text).val, Chars("results"))
    IN
    [i \in 1..Len(results.m) |-> results.m[i].v]

\* A term of the query occurs in the agreement, as the claim states it: the
\* terms are the words of the query between its spaces, and the text is the
\* concatenation of title, summary, type, category, file_name and the names
\* of the parties, both without regard to case.
ClaimedMatch(agreement, query) ==
    LET
        Text(val) == IF JFalsy(val) THEN <<>> ELSE ToStringJS(val)
        parties == GetProp(agreement, Chars("parties"))
        text ==
            ToLower(Join(
                [i \in 1..5 |->
                    Text(GetProp(agreement, Chars(<<"title", "summary", "type", "category",
                                                    "file_name">>[i])))]
                \o (IF parties.t # "arr" THEN <<>>
                    ELSE [i \in 1..Len(parties.m) |->
                             Text(GetProp(parties.m[i].v, Chars("preferred_name"))) \o <<32>>
                             \o Text(GetProp(parties.m[i].v, Chars("name_in_agreement")))]),
                <<32>>))
        terms == SelectSeq(Split(ToLower(query), 32), LAMBDA term : term # <<>>)
    IN
    \E t \in 1..Len(terms) : Includes(text, terms[t])

\* C17, as stated: search returns exactly the agreements of the upstream list
\* in which at least one whitespace-delimited term of the query occurs, for
\* every query, with leading, trailing or repeated spaces too.
C17_ExactlyTheMatching ==
    (Answered("search") /\ Listed.ok) =>
        [i \in 1..Len(Results) |-> GetProp(Results[i], Chars("id"))]
        = [i \in 1..Len(SelectSeq(Listed.agreements,
                                  LAMBDA agreement : ClaimedMatch(agreement, toolIn.input))) |->
              GetProp(SelectSeq(Listed.agreements,
                                LAMBDA agreement : ClaimedMatch(agreement, toolIn.input))[i],
                      Chars("id"))]

\* C18, as stated: the text snippet of every result entry of search has at
\* most 200 characters.
C18_SnippetAtMost200 ==
    (Answered("search") /\ Listed.ok) =>
        \A i \in 1..Len(Results) : Len(ToStringJS(GetProp(Results[i], Chars("text")))) <= 200

\* The Navigator API answered the pending call of get_agreement_by_id, made
\* with an access token and an id, with a status outside 200..299.
Refused ==
    /\ Answered("get_agreement_by_id")
    /\ SignedIn /\ ~Falsy(toolIn.input)
    /\ toolIn.response.kind # "rejected" /\ toolIn.response.status \notin 200..299

\* The text of the tool response holds the message that tells that the
\* Navigator API is not available for the account.
SaysNavigatorUnavailable ==
    /\ Says("Navigator")
    /\ Says("To get access, please visit: https://developers.docusign.com/docs/navigator-api/")

\* C19: of the failures of the agreement endpoint, get_agreement_by_id tells a
\* 404 whose body mentions neither Navigator nor 'not available' as 'Agreement
\* not found', a 404 whose body mentions one of them and every 403 by the
\* message that Navigator is not available, and every other status outside
\* 200..299 by a message that the agreement could not be retrieved.
C19_FailuresDistinguished ==
    Refused =>
        /\ WellFormed(toolOut)
        /\ IF toolIn.response.status = 403
              \/ (/\ toolIn.response.status = 404
                  /\ \/ Includes(toolIn.response.text, Chars("Navigator"))
                     \/ Includes(toolIn.response.text, Chars("not available")))
           THEN SaysNavigatorUnavailable /\ ~Says("Agreement not found")
           ELSE IF toolIn.response.status = 404
           THEN Says("Agreement not found") /\ ~SaysNavigatorUnavailable
           ELSE /\ Says("Failed to retrieve agreement") \/ Says("Error retrieving agreement")
                /\ ~Says("Agreement not found") /\ ~SaysNavigatorUnavailable

\* The agreement endpoint answered 404 with a body that mentions neither, and
\* the current handler told it as 'Agreement not found'.
C19_Witness ==
    /\ Refused
    /\ build = "current"
    /\ toolIn.response = HttpReply(404, "{\"error\":\"not_found\"}")
    /\ Says("Failed to retrieve agreement: Agreement not found")
    /\ JSONparse(toolOut.content[1].text).ok

\* The user-info endpoint answered the pending call of auth_status, made
\* with an access token, with a 401.
Unauthorized ==
    /\ Answered("auth_status")
    /\ toolIn.authInfo # NoAuthInfo
    /\ toolIn.authInfo.token \in {Chars("t1"), Chars(" t1 ")}
    /\ toolIn.userInfoRes.kind = "http" /\ toolIn.userInfoRes.status = 401

C15_EveryRequestVerified ==
    \A i \in 1..Len(mcpLog) :
        /\ ~Falsy(mcpLog[i].token)
           => mcpLog[i].asked = << [url |-> Chars("/oauth/userinfo"),
                                    authorization |-> Chars("Bearer ") \o mcpLog[i].token] >>
        /\ mcpLog[i].ran
           => /\ ~Falsy(mcpLog[i].token)
              /\ mcpLog[i].reply.kind = "http" /\ mcpLog[i].reply.status \in 200..299
        /\ mcpLog[i].reply.status = 401 => (~mcpLog[i].ran /\ mcpLog[i].status = 401)

\* A request with the token t1 was admitted and auth_status ran; the upstream
\* then stopped accepting t1, and the very next request with t1 was refused.
C15_Witness ==
    /\ Len(mcpLog) = 2
    /\ Chars("t1") \notin accepted
    /\ mcpLog[1].token = Chars("t1") /\ mcpLog[1].ran /\ mcpLog[1].reply.status = 200
    /\ mcpLog[2].token = Chars("t1") /\ ~mcpLog[2].ran /\ mcpLog[2].status = 401
    /\ mcpLog[2].reply.status = 401
    /\ toolOut = NoToolResponse

\* C30: the token verifier gives every token that it finds valid the scopes
\* ['signature'] and the clientId 'unknown', whatever the upstream answered;
\* so the check of /mcp for the scope signature refuses (with a 403) no
\* request, and admits every token that the verifier finds valid.
C30_FixedScopeAlwaysAdmitted ==
    verIn # NoCall =>
        /\ withMcpAuth(verOut) # 403
        /\ verOut # NoAuthInfo
           => /\ verOut.scopes = <<Chars("signature")>>
              /\ verOut.clientId = Chars("unknown")
              /\ withMcpAuth(verOut) = 200

\* The user-info endpoint answered 200 for the token t1, and the verifier
\* returned the AuthInfo with the scope signature, which /mcp admits.
C30_Witness ==
    /\ verIn # NoCall
    /\ verIn.token = Chars("t1")
    /\ verIn.reply = HttpReply(200, UserInfoBody)
    /\ verOut.scopes = <<Chars("signature")>>
    /\ verOut.clientId = Chars("unknown")
    /\ withMcpAuth(verOut) = 200

\* The upstream was not available to the pending call of the service: the
\* call had its arguments, and the request to the user-info endpoint failed on
\* the network or was answered 5xx, or else the user-info endpoint named an
\* account and the request to the Navigator API failed so.
Unavailable ==
    LET
        Down(reply) == reply.kind = "rejected" \/ reply.status \in 500..599
    IN
    /\ svcIn # NoCall
    /\ ~Falsy(svcIn.accessToken)
    /\ svcIn.tool = "fetchAgreementById" => ~Falsy(svcIn.agreementId)
    /\ \/ Down(svcIn.userInfoRes)
       \/ svcOut.url # NULL /\ Down(svcIn.response)

\* C22, as stated: when the upstream is not available, that is a request
\* fails on the network or is answered 5xx, fetchAgreements and
\* fetchAgreementById throw an AppError with the status 503.
C22_UnavailableIs503 ==
    Unavailable => (~svcOut.ok /\ svcOut.app /\ svcOut.statusCode = 503)

\* The accounts that the user-info endpoint named in its reply to the pending
\* call of the service, and those of them that are flagged is_default.
NamedAccounts ==
    LET
        accounts == GetProp(JSONparse(svcIn.userInfoRes.text).val, Chars("accounts"))
    IN
    IF svcIn # NoCall /\ Ok(svcIn.userInfoRes) /\ svcIn.userInfoRes.kind = "http"
       /\ accounts.t = "arr"
    THEN [i \in 1..Len(accounts.m) |-> accounts.m[i].v]
    ELSE <<>>

\* C28, as stated: when the user-info endpoint names accounts of which one is
\* flagged is_default, the account that auth_status reports as the default
\* account is the account under which fetchAgreements and fetchAgreementById,
\* and with them get_agreements, get_agreement_by_id, search and fetch, read
\* the agreements from the Navigator API.
C28_DefaultAccountIsRead ==
    (/\ svcIn # NoCall /\ svcOut.url # NULL
     /\ \E i \in 1..Len(NamedAccounts) :
            ~JFalsy(GetProp(NamedAccounts[i], Chars("is_default"))))
    => \E i \in 1..Len(NamedAccounts) :
           /\ Includes(authStatusHandler(
                           build,
                           [token |-> svcIn.accessToken, scopes |-> <<Chars("signature")>>,
                            clientId |-> Chars("unknown"), userInfo |-> JUndefined],
                           svcIn.userInfoRes).content[1].text \o <<10>>,
                       Chars("Account ID: ")
                       \o ToStringJS(GetProp(NamedAccounts[i], Chars("account_id"))) \o <<10>>)
           /\ StartsWith(svcOut.url,
                         Chars("https://api-d.docusign.com/v1/accounts/")
                         \o ToStringJS(GetProp(NamedAccounts[i], Chars("account_id")))
                         \o Chars("/agreements"))

\* The upstream token endpoint replied to the relayed grant with a JSON object.
RepliedObject == tokReply.kind = "json" /\ tokReply.data.t = "obj"

\* C29: of a JSON object that the upstream token endpoint replies, the body of
\* the POST /token response holds every field but scope as it was received, in
\* the order received, and adds no field but scope; a payload without an
\* access token is the body as it was received, scope included.
C29_OnlyScopeChanges ==
    RepliedObject =>
        /\ tokResp.data.t = "obj"
        /\ SelectSeq(tokResp.data.m, LAMBDA member : member.k # Chars("scope"))
           = SelectSeq(tokReply.data.m, LAMBDA member : member.k # Chars("scope"))
        /\ JFalsy(GetProp(tokReply.data, Chars("access_token")))
           => tokResp.data = tokReply.data

\* The upstream replied with a grant of six fields, one of them unknown, and
\* the response holds the five others as received and the default scope.
C29_Witness ==
    /\ RepliedObject
    /\ Len(tokReply.data.m) = 6
    /\ GetProp(tokReply.data, Chars("refresh_token")) = JStr(Chars("rt"))
    /\ GetProp(tokResp.data, Chars("refresh_token")) = JStr(Chars("rt"))
    /\ GetProp(tokResp.data, Chars("user_api")) = GetProp(tokReply.data, Chars("user_api"))
    /\ GetProp(tokResp.data, Chars("user_api")).t = "obj"
    /\ GetProp(tokResp.data, Chars("token_type")) = JStr(Chars("bearer"))
    /\ GetProp(tokResp.data, Chars("scope")) = JStr(DefaultScope)
    /\ tokResp.data # tokReply.data

\* GET /authorize answered a request that failed validation by a redirect.
ErrorRedirected == authResp # NoResponse /\ authErr # NoError /\ authResp.status = 302

\* C27, as stated: a redirect by which GET /authorize answers a validation
\* failure carries no state parameter, whether or not the caller supplied one.
C27_NoStateOnErrorRedirect ==
    ErrorRedirected => LocationParam(authResp.location, "state") = NULL

\* C27, amended: a redirect by which GET /authorize answers a validation
\* failure is the caller's redirect_uri with the error parameters set; the
\* handler sets no state parameter, so the redirect carries a state parameter
\* only when the redirect_uri has one in its own query, and then that one.
C27_NoStateSetOnErrorRedirect ==
    ErrorRedirected =>
        /\ authErr.state = NULL
        /\ SameTarget(authResp.location, authReq.redirect_uri,
                      {Chars("error"), Chars("error_description"), Chars("error_uri")})
        /\ LocationParam(authResp.location, "state")
           = LocationParam(authReq.redirect_uri, "state")

\* A request with the state s1 and an unsupported response_type was answered
\* by a redirect to its redirect_uri, without a state parameter.
C27_Witness ==
    /\ ErrorRedirected
    /\ authReq.state = Chars("s1")
    /\ authReq.redirect_uri = Chars("https://c.io/cb")
    /\ authErr.error = Chars("unsupported_response_type")
    /\ LocationParam(authResp.location, "error") = Chars("unsupported_response_type")
    /\ LocationParam(authResp.location, "state") = NULL

\* The timestamp of the decoded state of the callback request lies within the
\* freshness window at the time the callback is handled.
FreshAtDecode ==
    LET
        stamp == ToNumber(GetProp(decodeStateParameter(cbReq.state), Chars("timestamp")))
    IN
    /\ ~Falsy(cbReq.state)
    /\ ~stamp.nan
    /\ cbAt - stamp.n <= StateExpirationMs

\* C23, as stated: GET /auth/callback issues a 302 only for a state whose
\* timestamp lies within the freshness window when it is decoded, on the path
\* of an upstream error as on the path of a code.
C23_NoRedirectForStaleState ==
    (cbResp # NoResponse /\ cbResp.status = 302) => FreshAtDecode

\* C26, as stated: every 302 of GET /auth/callback goes to a redirect URI
\* that satisfies the redirect-URI rules of GET /authorize (an allowed scheme,
\* none of javascript, data, vbscript and file, and http for a local host
\* only), for every state that decodes, whoever made it.
C26_RedirectTargetAllowed ==
    (cbResp # NoResponse /\ cbResp.status = 302) =>
        /\ ClaimedAccepts(ToStringJS(GetProp(decodeStateParameter(cbReq.state),
                                             Chars("redirect_uri"))))
        /\ SameTarget(cbResp.location,
                      ToStringJS(GetProp(decodeStateParameter(cbReq.state),
                                         Chars("redirect_uri"))),
                      {Chars("code"), Chars("state"), Chars("error"),
                       Chars("error_description")})

\* C21: every answer with a JSON body (the error bodies, the token answers, the
\* registration answers and the discovery metadata) carries the CORS headers,
\* and its Access-Control-Allow-Origin is the Origin of the request, or "*" when
\* the request has no Origin.
C21_JsonCarriesCors ==
    corsIn # NoCall =>
        /\ ParamsGet(corsOut, Chars("Access-Control-Allow-Origin"))
               = OrElse(corsIn.origin, Chars("*"))
        /\ ParamsGet(corsOut, Chars("Access-Control-Allow-Methods")) # NULL
        /\ ParamsGet(corsOut, Chars("Access-Control-Allow-Headers")) # NULL

\* The pairs of callbacks of the log, the earlier one first, that carry the
\* same encoded state string.
SameStateCallbacks ==
    { p \in (1..Len(flowLog)) \X (1..Len(flowLog)) :
        /\ p[1] < p[2]
        /\ flowLog[p[1]].endpoint = "callback"
        /\ flowLog[p[2]].endpoint = "callback"
        /\ flowLog[p[1]].request.state = flowLog[p[2]].request.state }

\* The answer of a callback is a success redirect: a 302 that carries a code.
SuccessRedirect(entry) ==
    /\ entry.response.status = 302
    /\ LocationParam(entry.response.location, "code") # NULL

\* C24, as stated: a relay state is consumed exactly once: of the callback
\* requests that carry the same encoded state string, at most one results in
\* a success redirect to the caller.
C24_StateConsumedOnce ==
    \A p \in SameStateCallbacks :
        ~(SuccessRedirect(flowLog[p[1]]) /\ SuccessRedirect(flowLog[p[2]]))

\* C24, amended: a relay state is not consumed: of the callback requests that
\* carry the same encoded state string and the same code, every one that is
\* handled within the freshness window of the state, after one that resulted
\* in a success redirect, results in the same success redirect.
C24_StateReplayableWhileFresh ==
    \A p \in SameStateCallbacks :
        LET stamp == ToNumber(GetProp(decodeStateParameter(flowLog[p[1]].request.state),
                                      Chars("timestamp")))
        IN  (/\ SuccessRedirect(flowLog[p[1]])
             /\ flowLog[p[1]].request.code = flowLog[p[2]].request.code
             /\ ~stamp.nan
             /\ flowLog[p[2]].at - stamp.n <= StateExpirationMs)
            => /\ SuccessRedirect(flowLog[p[2]])
               /\ flowLog[p[2]].response = flowLog[p[1]].response

\* A state is replayed at a later time within its window, after a success
\* redirect, and is redirected again.
C24_Witness ==
    \E p \in SameStateCallbacks :
        /\ SuccessRedirect(flowLog[p[1]])
        /\ SuccessRedirect(flowLog[p[2]])
        /\ flowLog[p[2]].at > flowLog[p[1]].at

====
